---- MODULE Spec2Model ----
(***************************************************************************)
(* Archive metadata readers (ZIP, RAR v4/v5, 7-Zip, gzip), the ZIP writer  *)
(* with WinZip-AES and the AES-256-CBC envelope writer of                  *)
(* src/libmime/archives.c, as a state machine over byte buffers.           *)
(*                                                                         *)
(* Buffers are sequences of bytes; a C pointer into the input is the       *)
(* 0-based offset from part->parsed_data.begin.  64- and 32-bit unsigned   *)
(* values are kept as 8 little-endian limbs of 8 bits (a "wide"), so that  *)
(* their width is the width of the C types.                                *)
(***************************************************************************)
EXTENDS Integers, Sequences, FiniteSets, TLC

VARIABLES
    input,      \* part->parsed_data (begin, len): the bytes handed to a reader
    tail,       \* the bytes that lie in memory right after the buffer
    uninit,     \* the content of uninitialised stack bytes
    cdname,     \* part->cd->filename (empty: no content disposition)
    ext,        \* part->detected_ext
    part,       \* the MIME part: part_type, specific.arch, ct (flags or NoCt)
    arch,       \* the struct rspamd_archive under construction
    pc,         \* position in the running function
    p,          \* the cursor of the running reader
    loc,        \* the other locals of the running reader
    oob,        \* a byte outside [0, len) has been dereferenced
    files,      \* writer input: the rspamd_zip_file_spec array
    password,   \* writer input: password (NoPassword = NULL)
    zip,        \* writer: GByteArray *zip
    cd,         \* writer: GByteArray *cd
    wi,         \* writer: loop index i (0-based), and bookkeeping of the entries
    winfo,      \* writer: per written entry, the facts of its headers
    result,     \* writer: the returned GByteArray or NoBytes (NULL)
    crypto      \* writer: allocation and key-material bookkeeping

vars == <<input, tail, uninit, cdname, ext, part, arch, pc, p, loc, oob,
          files, password, zip, cd, wi, winfo, result, crypto>>

readerVars == <<input, tail, uninit, cdname, ext, part, arch, p, loc, oob>>
writerVars == <<files, password, zip, cd, wi, winfo, result, crypto>>

----------------------------------------------------------------------------
(* Bytes, bits and sequences *)

Byte == 0..255

Min(a, b) == IF a < b THEN a ELSE b
Max(a, b) == IF a > b THEN a ELSE b

\* (x >> k) & 1
BitSet(x, k) == (x \div (2 ^ k)) % 2 = 1

RECURSIVE BitAnd(_, _)
BitAnd(a, b) ==
    IF a = 0 \/ b = 0 THEN 0
    ELSE (a % 2) * (b % 2) + 2 * BitAnd(a \div 2, b \div 2)

\* n copies of byte b
Rep(b, n) == [i \in 1..n |-> b]

RECURSIVE Concat(_)
Concat(ss) == IF ss = <<>> THEN <<>> ELSE Head(ss) \o Concat(Tail(ss))

Take(s, n) == SubSeq(s, 1, Min(n, Len(s)))
Drop(s, n) == SubSeq(s, n + 1, Len(s))

\* position (1-based) of the first / last occurrence of b in s, 0 if none
FirstIndex(s, b) ==
    IF \E i \in 1..Len(s) : s[i] = b
    THEN CHOOSE i \in 1..Len(s) : s[i] = b /\ \A j \in 1..(i - 1) : s[j] # b
    ELSE 0

LastIndex(s, b) ==
    IF \E i \in 1..Len(s) : s[i] = b
    THEN CHOOSE i \in 1..Len(s) : s[i] = b /\ \A j \in (i + 1)..Len(s) : s[j] # b
    ELSE 0

\* s contains t as a contiguous run (strstr)
HasSub(s, t) ==
    \E i \in 1..(Len(s) - Len(t) + 1) : SubSeq(s, i, i + Len(t) - 1) = t

\* rspamd_ba_append_u16le / rspamd_ba_append_u32le: fixed-width little-endian
LE16(v) == <<v % 256, (v \div 256) % 256>>
LE32(v) == <<v % 256, (v \div 256) % 256, (v \div 65536) % 256, (v \div 16777216) % 256>>

----------------------------------------------------------------------------
(* Memory reads.  Offset i (0-based) inside the buffer returns input[i+1]; *)
(* an offset at or past the end returns whatever lies behind the buffer.   *)

InBuf(buf, i) == i >= 0 /\ i < Len(buf)

ByteAt(buf, tl, i) ==
    IF InBuf(buf, i) THEN buf[i + 1]
    ELSE IF i >= Len(buf) /\ i - Len(buf) < Len(tl) THEN tl[i - Len(buf) + 1]
    ELSE 0

\* n bytes starting at offset i
BytesAt(buf, tl, i, n) == [k \in 1..n |-> ByteAt(buf, tl, i + k - 1)]

\* some byte of [i, i+n) lies outside the buffer
Outside(buf, i, n) == n > 0 /\ (i < 0 \/ i + n > Len(buf))

\* p[0] + (p[1] << 8): the bytes of RAR_READ_UINT16 and of the ZIP memcpy reads
U16At(buf, tl, i) == ByteAt(buf, tl, i) + 256 * ByteAt(buf, tl, i + 1)

----------------------------------------------------------------------------
(* Wide unsigned integers: uint64_t as 8 little-endian limbs of 8 bits.    *)
(* A uint32_t is a wide whose upper four limbs are zero.                    *)

WLimbs == 1..8

\* a small natural (below 2^31) as a wide
W(n) == [i \in WLimbs |-> IF i <= 4 THEN (n \div (256 ^ (i - 1))) % 256 ELSE 0]

\* memcpy of up to 8 bytes into a zeroed uint64_t, then GUINT64_FROM_LE
WFromBytes(bs) == [i \in WLimbs |-> IF i <= Len(bs) THEN bs[i] ELSE 0]

\* w is below 2^30; the value of such a w, and 2^30 for any other
WSmall(w) == w[4] < 64 /\ \A i \in 5..8 : w[i] = 0
WNat(w) ==
    IF WSmall(w) THEN w[1] + 256 * w[2] + 65536 * w[3] + 16777216 * w[4]
    ELSE 1073741824

RECURSIVE WCarry(_, _, _)
WCarry(a, b, i) ==
    IF i = 1 THEN 0 ELSE (a[i - 1] + b[i - 1] + WCarry(a, b, i - 1)) \div 256

\* a + b modulo 2^64
WAdd(a, b) == [i \in WLimbs |-> (a[i] + b[i] + WCarry(a, b, i)) % 256]

\* (uint32_t) w
WTrunc32(w) == [i \in WLimbs |-> IF i <= 4 THEN w[i] ELSE 0]

\* a < b, a <= b as unsigned 64-bit values
WLt(a, b) == \E i \in WLimbs : a[i] < b[i] /\ \A j \in (i + 1)..8 : a[j] = b[j]
WLe(a, b) == a = b \/ WLt(a, b)

\* bit k of w
WBit(w, k) == BitSet(w[(k \div 8) + 1], k % 8)

\* w > n for a natural n below 2^30
WGtNat(w, n) == WNat(w) > n
WIsZero(w) == \A i \in WLimbs : w[i] = 0

----------------------------------------------------------------------------
(* Unicode conversions used by the file-name normaliser and by the 7-Zip   *)
(* name decoder (ICU's U16_NEXT, U8_APPEND and the UTF-8 converter).        *)

Bad == <<-1>>

IsCont(b) == b >= 128 /\ b <= 191

RECURSIVE Utf8Decode(_)
\* UTF-8 bytes to code points; Bad when the bytes are not well-formed UTF-8
Utf8Decode(bs) ==
    IF bs = <<>> THEN <<>>
    ELSE LET b0 == bs[1]
             n  == IF b0 < 128 THEN 1
                   ELSE IF b0 >= 194 /\ b0 <= 223 THEN 2
                   ELSE IF b0 >= 224 /\ b0 <= 239 THEN 3
                   ELSE IF b0 >= 240 /\ b0 <= 244 THEN 4
                   ELSE 0
         IN IF n = 0 \/ Len(bs) < n \/ \E k \in 2..n : ~IsCont(bs[k]) THEN Bad
            ELSE LET cp == IF n = 1 THEN b0
                           ELSE IF n = 2 THEN (b0 - 192) * 64 + (bs[2] - 128)
                           ELSE IF n = 3 THEN (b0 - 224) * 4096 + (bs[2] - 128) * 64
                                              + (bs[3] - 128)
                           ELSE (b0 - 240) * 262144 + (bs[2] - 128) * 4096
                                + (bs[3] - 128) * 64 + (bs[4] - 128)
                     ok == /\ (n = 3 => cp >= 2048 /\ ~(cp >= 55296 /\ cp <= 57343))
                           /\ (n = 4 => cp >= 65536 /\ cp <= 1114111)
                     rest == Utf8Decode(Drop(bs, n))
                 IN IF ~ok \/ rest = Bad THEN Bad ELSE <<cp>> \o rest

\* one code point as UTF-16 code units
U16Units(cp) ==
    IF cp < 65536 THEN <<cp>>
    ELSE <<55296 + ((cp - 65536) \div 1024), 56320 + ((cp - 65536) % 1024)>>

RECURSIVE ToU16(_)
ToU16(cps) == IF cps = <<>> THEN <<>> ELSE U16Units(Head(cps)) \o ToU16(Tail(cps))

RECURSIVE U16CodePoints(_)
\* U16_NEXT over the whole unit string: a lead surrogate followed by a trail
\* surrogate is one supplementary code point, any other unit is itself
U16CodePoints(us) ==
    IF us = <<>> THEN <<>>
    ELSE IF /\ us[1] >= 55296 /\ us[1] <= 56319 /\ Len(us) >= 2
            /\ us[2] >= 56320 /\ us[2] <= 57343
         THEN <<65536 + (us[1] - 55296) * 1024 + (us[2] - 56320)>>
              \o U16CodePoints(Drop(us, 2))
         ELSE <<us[1]>> \o U16CodePoints(Tail(us))

\* U8_APPEND: the UTF-8 bytes of one code point; Bad for a surrogate or a
\* value above U+10FFFF
Utf8Bytes(cp) ==
    IF cp < 128 THEN <<cp>>
    ELSE IF cp < 2048 THEN <<192 + (cp \div 64), 128 + (cp % 64)>>
    ELSE IF cp >= 55296 /\ cp <= 57343 THEN Bad
    ELSE IF cp < 65536
         THEN <<224 + (cp \div 4096), 128 + ((cp \div 64) % 64), 128 + (cp % 64)>>
    ELSE IF cp <= 1114111
         THEN <<240 + (cp \div 262144), 128 + ((cp \div 4096) % 64),
                128 + ((cp \div 64) % 64), 128 + (cp % 64)>>
    ELSE Bad

RECURSIVE Utf8Encode(_)
Utf8Encode(cps) ==
    IF cps = <<>> THEN <<>>
    ELSE LET h == Utf8Bytes(Head(cps))
             r == Utf8Encode(Tail(cps))
         IN IF h = Bad \/ r = Bad THEN Bad ELSE h \o r

\* IS_ZERO_WIDTH_SPACE(uc)
IsZeroWidthSpace(uc) == uc \in {8203, 8204, 8205, 65279, 173}

\* u_iscntrl(uc): C0 and C1 controls, DEL, format characters, line and
\* paragraph separators
IsUCntrl(uc) ==
    \/ uc <= 31
    \/ (uc >= 127 /\ uc <= 159)
    \/ uc \in {173, 8232, 8233, 65279}
    \/ (uc >= 8203 /\ uc <= 8207)
    \/ (uc >= 8234 /\ uc <= 8238)
    \/ (uc >= 8288 /\ uc <= 8292)

\* g_ascii_isgraph(c), g_ascii_iscntrl(c)
IsAsciiGraph(b) == b >= 33 /\ b <= 126
IsAsciiCntrl(b) == b <= 31 \/ b = 127

----------------------------------------------------------------------------
(* struct rspamd_archive_file, struct rspamd_archive, struct rspamd_mime_part *)

\* g_malloc0(sizeof(*f))
NewFile == [fname |-> Bad, compressed_size |-> W(0), uncompressed_size |-> W(0),
            flags |-> {}]

\* rspamd_mempool_alloc0 + g_ptr_array_new + arch->type = type
NewArch(type) == [type |-> type, files |-> <<>>, flags |-> {}, size |-> 0]

NoArch == NewArch("none")
NoCt == {"no content type"}

\* a variant of AddFile that copies the encrypted flag of the entry to the
\* archive
AddFileEncrypting(a, f) ==
    IF f.fname = Bad THEN a
    ELSE [a EXCEPT !.files = Append(@, f),
                   !.flags = @ \cup (IF "obfuscated" \in f.flags
                                     THEN {"has_obfuscated_files"} ELSE {})
                               \cup (f.flags \cap {"encrypted"})]

\* a variant of AddFile that forgets the archive flag
AddFileNoArchFlag(a, f) ==
    IF f.fname = Bad THEN a ELSE [a EXCEPT !.files = Append(@, f)]

\* if (f->fname) { g_ptr_array_add(arch->files, f); if (f->flags &
\* OBFUSCATED) arch->flags |= HAS_OBFUSCATED_FILES; } else g_free(f)
AddFile(a, f) ==
    IF f.fname = Bad THEN a
    ELSE [a EXCEPT !.files = Append(@, f),
                   !.flags = @ \cup (IF "obfuscated" \in f.flags
                                     THEN {"has_obfuscated_files"} ELSE {})]

\* part->part_type = RSPAMD_MIME_PART_ARCHIVE; part->specific.arch = arch;
\* arch->size = part->parsed_data.len
Attach(pt, a, buf) ==
    [pt EXCEPT !.part_type = "archive", !.arch = [a EXCEPT !.size = Len(buf)]]

----------------------------------------------------------------------------
(* rspamd_archive_file_try_utf: the file-name normaliser.                  *)
(* The charset guesser and the converters are injected: for given bytes the *)
(* guesser answers a charset ("utf8": the bytes convert under it), a        *)
(* charset that cannot be opened or converted ("fail"), or nothing.         *)

CharsetGuesses(in) ==
    {"none", "fail"} \cup (IF Utf8Decode(in) # Bad THEN {"utf8"} ELSE {})

\* no charset: unsafe characters become '?'; a replaced control or NUL byte
\* (*p < 0x7f && (g_ascii_iscntrl(*p) || *p == '\0')) marks the entry
TryUtfNone(f, in) ==
    [f EXCEPT
        !.fname = [i \in 1..Len(in) |-> IF IsAsciiGraph(in[i]) THEN in[i] ELSE 63],
        !.flags = @ \cup
            (IF \E i \in 1..Len(in) :
                    /\ ~IsAsciiGraph(in[i])
                    /\ in[i] # 127 /\ (IsAsciiCntrl(in[i]) \/ in[i] = 0)
             THEN {"obfuscated"} ELSE {})]

\* conv == NULL, or a conversion error: the raw bytes, marked obfuscated
TryUtfFail(f, in) ==
    [f EXCEPT !.fname = in, !.flags = @ \cup {"obfuscated"}]

\* a charset was found: to UTF-16, scan the code points, back to UTF-8
TryUtfCharset(f, in) ==
    LET tmp == ToU16(Utf8Decode(in))
        ucs == U16CodePoints(tmp)
        obf == \E i \in 1..Len(ucs) : IsZeroWidthSpace(ucs[i]) \/ IsUCntrl(ucs[i])
        res == Utf8Encode(ucs)
    IN IF res = Bad THEN TryUtfFail(f, in)
       ELSE [f EXCEPT !.fname = res,
                      !.flags = @ \cup (IF obf THEN {"obfuscated"} ELSE {})]

rspamd_archive_file_try_utf(f, in, guess) ==
    IF guess = "utf8" THEN TryUtfCharset(f, in)
    ELSE IF guess = "fail" THEN TryUtfFail(f, in)
    ELSE TryUtfNone(f, in)

----------------------------------------------------------------------------
(* rspamd_archive_process_gzip *)

\* end - p <= 10 || memcmp(p, gz_magic, 2) != 0
GzipBadMagic(buf) == Len(buf) <= 10 \/ Take(buf, 2) # <<31, 139>>

\* the offset of the first name byte when FNAME is set, -1 when the FEXTRA
\* block is truncated
GzipFnameStart(buf) ==
    LET flags == buf[4]
        p0    == IF BitSet(flags, 1) THEN 12 ELSE 10
    IN IF ~BitSet(flags, 2) THEN p0
       ELSE IF Len(buf) - p0 < 2 THEN -1
       ELSE LET optlen == U16At(buf, <<>>, p0)
                p1     == p0 + 2
            IN IF Len(buf) <= p1 + optlen THEN -1 ELSE p1 + optlen

\* the offset of the NUL that ends the name: the first zero byte after
\* fname_start (a zero at fname_start itself is stepped over); -1 if none
GzipFnameEnd(buf, s) ==
    LET zs == {q \in (s + 1)..(Len(buf) - 1) : buf[q + 1] = 0}
    IN IF s >= 0 /\ zs # {} THEN CHOOSE q \in zs : \A r \in zs : q <= r ELSE -1

\* the fallback name taken from the container file name; Bad when there is
\* none (no file name, or no dot in it)
GzipFallbackName(cdn) ==
    LET dot   == LastIndex(cdn, 46)
        slash == LastIndex(cdn, 47)
    IN IF Len(cdn) = 0 \/ dot = 0 THEN Bad
       ELSE IF slash # 0 /\ slash < dot THEN SubSeq(cdn, slash + 1, dot - 1)
       ELSE IF FirstIndex(cdn, 46) # dot THEN SubSeq(cdn, 1, dot - 1)
       ELSE cdn

GzipArch(buf) ==
    [NewArch("gzip") EXCEPT !.flags = IF BitSet(buf[4], 5) THEN {"encrypted"} ELSE {}]

GzipProcess ==
    /\ pc = "gzip"
    /\ pc' = "post"
    /\ UNCHANGED <<input, tail, uninit, cdname, ext, p, oob>>
    /\ UNCHANGED writerVars
    /\ IF GzipBadMagic(input)
       THEN /\ loc' = [loc EXCEPT !.msg = "gzip archive is invalid (no gzip magic)"]
            /\ UNCHANGED <<part, arch>>
       ELSE IF BitSet(input[4], 3)
       THEN LET s == GzipFnameStart(input)
                e == GzipFnameEnd(input, s)
            IN IF s = -1
               THEN /\ arch' = GzipArch(input)
                    /\ loc' = [loc EXCEPT !.msg = "gzip archive is invalid, bad extra length"]
                    /\ UNCHANGED part
               ELSE IF e = -1
               THEN /\ arch' = GzipArch(input)
                    /\ loc' = [loc EXCEPT !.msg = "gzip archive is invalid, bad filename"]
                    /\ UNCHANGED part
               ELSE \E g \in CharsetGuesses(BytesAt(input, tail, s, e - s)) :
                       LET f == rspamd_archive_file_try_utf(
                                    NewFile, BytesAt(input, tail, s, e - s), g)
                           a == AddFile(GzipArch(input), f)
                       IN /\ arch' = a
                          /\ part' = Attach(part, a, input)
                          /\ loc' = [loc EXCEPT !.msg = "attached"]
       ELSE LET n == GzipFallbackName(cdname)
            IN IF n = Bad
               THEN /\ arch' = GzipArch(input)
                    /\ loc' = [loc EXCEPT !.msg = "gzip: no name"]
                    /\ UNCHANGED part
               ELSE LET a == [GzipArch(input) EXCEPT
                                 !.files = Append(@, [NewFile EXCEPT !.fname = n])]
                    IN /\ arch' = a
                       /\ part' = Attach(part, a, input)
                       /\ loc' = [loc EXCEPT !.msg = "attached"]

----------------------------------------------------------------------------
(* RAR: the variable-length integer and the reading macros *)

\* the value of the 7-bit groups of bs, least significant group first: bit k
\* of the result is bit k % 7 of byte k \div 7 (t |= (*p & 0x7f) << shift)
WFrom7(bs) ==
    [i \in WLimbs |->
        LET Bit(k) == IF (k \div 7) + 1 <= Len(bs) /\ BitSet(bs[(k \div 7) + 1], k % 7)
                      THEN 2 ^ (k % 8) ELSE 0
            k0 == 8 * (i - 1)
        IN Bit(k0) + Bit(k0 + 1) + Bit(k0 + 2) + Bit(k0 + 3)
           + Bit(k0 + 4) + Bit(k0 + 5) + Bit(k0 + 6) + Bit(k0 + 7)]

RECURSIVE RarVintLoop(_, _, _, _, _)
\* the while loop of rspamd_archive_rar_read_vint at its exit; n bytes are
\* consumed, shift is 7 per byte that had its continuation bit set
RarVintLoop(buf, tl, start, remain, n) ==
    IF remain > 0 /\ 7 * n <= 57
    THEN IF ByteAt(buf, tl, start + n) >= 128
         THEN RarVintLoop(buf, tl, start, remain - 1, n + 1)
         ELSE [remain |-> remain, shift |-> 7 * n, n |-> n + 1]
    ELSE [remain |-> remain, shift |-> 7 * n, n |-> n]

\* the tail of the function: r is the return value (-1 on failure), val is
\* *res, reads the number of bytes dereferenced from start on
RarVintResult(buf, tl, start, l) ==
    IF l.remain = 0 \/ l.shift > 64
    THEN [r |-> -1, val |-> W(0), reads |-> l.n]
    ELSE [r |-> l.n, val |-> WFrom7(BytesAt(buf, tl, start, l.n)), reads |-> l.n]

rspamd_archive_rar_read_vint(buf, tl, start, remain) ==
    RarVintResult(buf, tl, start, RarVintLoop(buf, tl, start, remain, 0))

\* RAR_READ_VINT_SKIP at offset q: the cursor behind the vint, -1 when the
\* vint is bad (or q is already -1)
RarVintSkip(buf, tl, q) ==
    IF q = -1 \/ rspamd_archive_rar_read_vint(buf, tl, q, Len(buf) - q).r = -1 THEN -1
    ELSE q + rspamd_archive_rar_read_vint(buf, tl, q, Len(buf) - q).r

RECURSIVE RarVintsSkip(_, _, _, _)
\* k times RAR_READ_VINT_SKIP from offset q
RarVintsSkip(buf, tl, q, k) ==
    IF k = 0 THEN q ELSE RarVintsSkip(buf, tl, RarVintSkip(buf, tl, q), k - 1)

\* the value of the k-th vint (from 0) of a run of vints that starts at q
RarVintAt(buf, tl, q, k) ==
    rspamd_archive_rar_read_vint(buf, tl, RarVintsSkip(buf, tl, q, k),
                                 Len(buf) - RarVintsSkip(buf, tl, q, k)).val

\* RAR_SKIP_BYTES(n) for a wide n at offset q: the message of the failing
\* check, "" if the cursor can advance
RarSkipMsg(buf, q, n) ==
    IF WIsZero(n) THEN "rar archive is invalid (bad skip value)"
    ELSE IF WGtNat(n, Len(buf) - q) THEN "rar archive is invalid (truncated)"
    ELSE ""

\* a variant of Reject that publishes what has been collected so far
RejectPublishing(m) ==
    /\ pc' = "post"
    /\ loc' = [loc EXCEPT !.msg = m]
    /\ part' = Attach(part, arch, input)
    /\ UNCHANGED <<arch, p>>

\* return: the reader gives up with a debug message, the part is not touched
Reject(m) ==
    /\ pc' = "post"
    /\ loc' = [loc EXCEPT !.msg = m]
    /\ UNCHANGED <<part, arch, p>>

----------------------------------------------------------------------------
(* rspamd_archive_process_rar_v4 *)

\* a variant of Rar4ReadHeader that leaves ADD_SIZE out of the record size
Rar4ReadHeaderNoAdd(buf, tl, p0, comp_sz) ==
    LET end   == Len(buf)
        type  == ByteAt(buf, tl, p0 + 2)
        flags == U16At(buf, tl, p0 + 3)
        add   == BitSet(flags, 15)
        tmp   == WFromBytes(BytesAt(buf, tl, p0 + 7, 4))
        sz    == W(U16At(buf, tl, p0 + 5))
    IN [msg |-> IF end - p0 < 2 THEN "rar archive is invalid (truncated)"
                ELSE IF end - (p0 + 3) < 2 THEN "rar archive is invalid (bad int16)"
                ELSE IF type = 115 /\ BitSet(flags, 7) THEN "end"
                ELSE IF end - (p0 + 5) < 2 THEN "rar archive is invalid (bad int16)"
                ELSE IF add /\ end - (p0 + 7) < 4 THEN "rar archive is invalid (bad int32)"
                ELSE IF WIsZero(sz) THEN "rar archive is invalid (zero size block)"
                ELSE "",
        oob |-> end - p0 >= 2 /\ ~InBuf(buf, p0 + 2),
        type |-> type,
        flags |-> flags,
        sz |-> sz,
        comp_sz |-> IF add THEN tmp ELSE comp_sz,
        p |-> IF add THEN p0 + 11 ELSE p0 + 7]

\* from the top of the while loop to the zero-size check; comp_sz is the
\* value the local has from the earlier records
Rar4ReadHeader(buf, tl, p0, comp_sz) ==
    LET end   == Len(buf)
        type  == ByteAt(buf, tl, p0 + 2)
        flags == U16At(buf, tl, p0 + 3)
        add   == BitSet(flags, 15)
        tmp   == WFromBytes(BytesAt(buf, tl, p0 + 7, 4))
        sz    == IF add THEN WAdd(W(U16At(buf, tl, p0 + 5)), tmp)
                 ELSE W(U16At(buf, tl, p0 + 5))
    IN [msg |-> IF end - p0 < 2 THEN "rar archive is invalid (truncated)"
                ELSE IF end - (p0 + 3) < 2 THEN "rar archive is invalid (bad int16)"
                ELSE IF type = 115 /\ BitSet(flags, 7) THEN "end"
                ELSE IF end - (p0 + 5) < 2 THEN "rar archive is invalid (bad int16)"
                ELSE IF add /\ end - (p0 + 7) < 4 THEN "rar archive is invalid (bad int32)"
                ELSE IF WIsZero(sz) THEN "rar archive is invalid (zero size block)"
                ELSE "",
        oob |-> end - p0 >= 2 /\ ~InBuf(buf, p0 + 2),
        type |-> type,
        flags |-> flags,
        sz |-> sz,
        comp_sz |-> IF add THEN tmp ELSE comp_sz,
        p |-> IF add THEN p0 + 11 ELSE p0 + 7]

\* the file header branch (type == 0x74) from UNP_SIZE to the name; q is the
\* cursor, l the locals.  name: the bytes handed to the normaliser (with flag
\* 0x200 the bytes before the first NUL); reads: the bytes memchr and the
\* normaliser dereference
Rar4ReadFile(buf, tl, q, l) ==
    LET end   == Len(buf)
        fname_len == U16At(buf, tl, q + 15)
        high  == BitSet(l.flags, 8)
        hp    == WFromBytes(BytesAt(buf, tl, q + 21, 4))
        hu    == WFromBytes(BytesAt(buf, tl, q + 25, 4))
        p4    == IF high THEN q + 29 ELSE q + 21
        z     == IF BitSet(l.flags, 9)
                 THEN FirstIndex(BytesAt(buf, tl, p4, fname_len), 0) ELSE 0
    IN [msg |-> IF end - q < 4 THEN "rar archive is invalid (bad int32)"
                ELSE IF end - (q + 4) < 11 THEN "rar archive is invalid (truncated)"
                ELSE IF end - (q + 15) < 2 THEN "rar archive is invalid (bad int16)"
                ELSE IF fname_len = 0 \/ fname_len > end - (q + 17)
                     THEN "rar archive is invalid (bad filename size)"
                ELSE IF end - (q + 17) < 4 THEN "rar archive is invalid (truncated)"
                ELSE IF high /\ end - (q + 21) < 8 THEN "rar archive is invalid (bad int32)"
                ELSE "",
        p |-> p4,
        sz |-> IF high THEN WAdd(l.sz, hp) ELSE l.sz,
        comp_sz |-> IF high THEN WAdd(l.comp_sz, hp) ELSE l.comp_sz,
        uncomp_sz |-> IF high THEN WAdd(WFromBytes(BytesAt(buf, tl, q, 4)), hu)
                      ELSE WFromBytes(BytesAt(buf, tl, q, 4)),
        name |-> BytesAt(buf, tl, p4, IF z # 0 THEN z - 1 ELSE fname_len),
        oob |-> Outside(buf, p4, IF z # 0 THEN z ELSE fname_len)]

\* one pass from the loop test to the header type
Rar4Header ==
    /\ pc = "rar4"
    /\ p < Len(input)
    /\ \E h \in {Rar4ReadHeader(input, tail, p, loc.comp_sz)} :
          /\ oob' = (oob \/ h.oob)
          /\ IF h.msg = "end"
             THEN /\ arch' = [arch EXCEPT !.flags = @ \cup {"encrypted"}]
                  /\ part' = Attach(part, arch', input)
                  /\ loc' = [loc EXCEPT !.msg = "attached"]
                  /\ pc' = "post"
                  /\ UNCHANGED p
             ELSE IF h.msg # "" THEN Reject(h.msg)
             ELSE /\ pc' = IF h.type = 116 THEN "rar4_file" ELSE "rar4_skip"
                  /\ p' = h.p
                  /\ loc' = [loc EXCEPT !.start_section = p, !.flags = h.flags,
                                        !.sz = h.sz, !.comp_sz = h.comp_sz]
                  /\ UNCHANGED <<arch, part>>
    /\ UNCHANGED <<input, tail, uninit, cdname, ext>>
    /\ UNCHANGED writerVars

\* the file header: sizes, name, flags; the entry joins arch->files
Rar4File ==
    /\ pc = "rar4_file"
    /\ \E h \in {Rar4ReadFile(input, tail, p, loc)} :
          IF h.msg # "" THEN Reject(h.msg) /\ UNCHANGED oob
          ELSE \E g \in CharsetGuesses(h.name) :
                  /\ arch' = AddFile(arch,
                        [rspamd_archive_file_try_utf(NewFile, h.name, g) EXCEPT
                            !.compressed_size = h.comp_sz,
                            !.uncompressed_size = h.uncomp_sz,
                            !.flags = @ \cup (IF BitSet(loc.flags, 2)
                                              THEN {"encrypted"} ELSE {})])
                  /\ oob' = (oob \/ h.oob)
                  /\ p' = h.p
                  /\ loc' = [loc EXCEPT !.sz = h.sz, !.comp_sz = h.comp_sz,
                                        !.uncomp_sz = h.uncomp_sz]
                  /\ pc' = "rar4_skip"
                  /\ UNCHANGED part
    /\ UNCHANGED <<input, tail, uninit, cdname, ext>>
    /\ UNCHANGED writerVars

\* p = start_section; RAR_SKIP_BYTES(sz); and back to the loop test
Rar4Skip ==
    /\ pc = "rar4_skip"
    /\ IF RarSkipMsg(input, loc.start_section, loc.sz) # ""
       THEN Reject(RarSkipMsg(input, loc.start_section, loc.sz))
       ELSE /\ p' = loc.start_section + WNat(loc.sz)
            /\ pc' = "rar4"
            /\ UNCHANGED <<part, arch, loc>>
    /\ UNCHANGED <<input, tail, uninit, cdname, ext, oob>>
    /\ UNCHANGED writerVars

\* the loop ends (p >= end): the archive is attached
Rar4End ==
    /\ pc = "rar4"
    /\ p >= Len(input)
    /\ part' = Attach(part, arch, input)
    /\ loc' = [loc EXCEPT !.msg = "attached"]
    /\ pc' = "post"
    /\ UNCHANGED <<input, tail, uninit, cdname, ext, arch, p, oob>>
    /\ UNCHANGED writerVars

----------------------------------------------------------------------------
(* rspamd_archive_process_rar: magic dispatch and the RAR v5 walker *)

RarV5Magic == <<82, 97, 114, 33, 26, 7, 1, 0>>
RarV4Magic == <<82, 97, 114, 33, 26, 7, 0>>

RarStart ==
    /\ pc = "rar"
    /\ IF Len(input) <= 8
       THEN Reject("rar archive is invalid (too small)")
       ELSE IF Take(input, 8) = RarV5Magic
       THEN /\ pc' = "rar5_main" /\ p' = 8 /\ arch' = NewArch("rar")
            /\ UNCHANGED <<loc, part>>
       ELSE IF Take(input, 7) = RarV4Magic
       THEN /\ pc' = "rar4" /\ p' = 7 /\ arch' = NewArch("rar")
            /\ UNCHANGED <<loc, part>>
       ELSE Reject("rar archive is invalid (no rar magic)")
    /\ UNCHANGED <<input, tail, uninit, cdname, ext, oob>>
    /\ UNCHANGED writerVars

\* crc32, size, type, header flags and the optional extra and data sizes of
\* a v5 header at offset p0; first: the header right after the magic, which
\* is read without the zero-size check
Rar5ReadHeader(buf, tl, p0, first) ==
    LET q     == p0 + 4
        flags == RarVintAt(buf, tl, q, 2)
        nx    == IF WBit(flags, 0) THEN 1 ELSE 0
        nd    == IF WBit(flags, 1) THEN 1 ELSE 0
    IN [msg |-> IF Len(buf) - p0 < 4 THEN "rar archive is invalid (truncated)"
                ELSE IF RarVintSkip(buf, tl, q) = -1 THEN "rar archive is invalid (bad vint)"
                ELSE IF ~first /\ WIsZero(RarVintAt(buf, tl, q, 0))
                     THEN "rar archive is invalid (zero size block)"
                ELSE IF RarVintsSkip(buf, tl, q, 3 + nx + nd) = -1
                     THEN "rar archive is invalid (bad vint)"
                ELSE "",
        p |-> RarVintsSkip(buf, tl, q, 3 + nx + nd),
        section_start |-> RarVintSkip(buf, tl, q),
        type |-> RarVintAt(buf, tl, q, 1),
        sz |-> IF nd = 1 THEN WAdd(RarVintAt(buf, tl, q, 0), RarVintAt(buf, tl, q, 3 + nx))
               ELSE RarVintAt(buf, tl, q, 0),
        has_extra |-> nx = 1,
        extra_sz |-> RarVintAt(buf, tl, q, 3),
        has_data |-> nd = 1,
        data_sz |-> RarVintAt(buf, tl, q, 3 + nx)]

\* a variant of Rar5Main that takes an encryption header for an archive header
Rar5MainReadingOn ==
    /\ pc = "rar5_main"
    /\ \E h \in {Rar5ReadHeader(input, tail, p, TRUE)} :
          IF h.msg # "" THEN Reject(h.msg)
          ELSE IF h.type # W(1) /\ h.type # W(4)
          THEN Reject("rar archive is invalid (bad main header)")
          ELSE /\ pc' = "rar5_skip"
               /\ loc' = [loc EXCEPT !.start_section = h.section_start, !.sz = h.sz]
               /\ p' = h.p
               /\ UNCHANGED <<arch, part>>
    /\ UNCHANGED <<input, tail, uninit, cdname, ext, oob>>
    /\ UNCHANGED writerVars

\* the encryption header or the archive header that follows the magic
Rar5Main ==
    /\ pc = "rar5_main"
    /\ \E h \in {Rar5ReadHeader(input, tail, p, TRUE)} :
          IF h.msg # "" THEN Reject(h.msg)
          ELSE IF h.type = W(4)
          THEN /\ arch' = [arch EXCEPT !.flags = @ \cup {"encrypted"}]
               /\ part' = Attach(part, arch', input)
               /\ loc' = [loc EXCEPT !.msg = "attached"]
               /\ p' = h.p
               /\ pc' = "post"
          ELSE IF h.type # W(1) THEN Reject("rar archive is invalid (bad main header)")
          ELSE /\ pc' = "rar5_skip"
               /\ loc' = [loc EXCEPT !.start_section = h.section_start, !.sz = h.sz]
               /\ p' = h.p
               /\ UNCHANGED <<arch, part>>
    /\ UNCHANGED <<input, tail, uninit, cdname, ext, oob>>
    /\ UNCHANGED writerVars

\* the head of one iteration of while (p < end)
Rar5Header ==
    /\ pc = "rar5"
    /\ p < Len(input)
    /\ \E h \in {Rar5ReadHeader(input, tail, p, FALSE)} :
          IF h.msg # "" THEN Reject(h.msg)
          ELSE /\ pc' = IF h.type = W(2) THEN "rar5_file" ELSE "rar5_skip"
               /\ p' = h.p
               /\ loc' = [loc EXCEPT
                            !.start_section = h.section_start,
                            !.sz = h.sz,
                            !.has_extra = h.has_extra,
                            !.extra_sz = IF h.has_extra THEN h.extra_sz ELSE @,
                            !.comp_sz = IF h.has_data THEN h.data_sz ELSE @]
               /\ UNCHANGED <<arch, part>>
    /\ UNCHANGED <<input, tail, uninit, cdname, ext, oob>>
    /\ UNCHANGED writerVars

\* the file header from the file flags to the name length; q is the cursor.
\* skip: the bytes of the optional mtime and crc32; p: the offset of the name
Rar5ReadFile(buf, tl, q) ==
    LET fflags == RarVintAt(buf, tl, q, 0)
        skip   == (IF WBit(fflags, 1) THEN 4 ELSE 0) + (IF WBit(fflags, 2) THEN 4 ELSE 0)
        b      == RarVintsSkip(buf, tl, q, 3) + skip
        name   == RarVintsSkip(buf, tl, b, 3)
    IN [msg |-> IF RarVintsSkip(buf, tl, q, 3) = -1 THEN "rar archive is invalid (bad vint)"
                ELSE IF Len(buf) - b < 0 THEN "rar archive is invalid (truncated)"
                ELSE IF WBit(fflags, 0) THEN ""
                ELSE IF name = -1 THEN "rar archive is invalid (bad vint)"
                ELSE IF \/ WIsZero(RarVintAt(buf, tl, b, 2))
                        \/ WGtNat(RarVintAt(buf, tl, b, 2), Len(buf) - name)
                     THEN "rar archive is invalid (bad filename size)"
                ELSE "",
        is_directory |-> WBit(fflags, 0),
        uncomp_sz |-> RarVintAt(buf, tl, q, 1),
        p |-> IF WBit(fflags, 0) THEN b ELSE name,
        fname_len |-> WNat(RarVintAt(buf, tl, b, 2))]

\* f && has_extra && extra_sz > 0 && p + fname_len + extra_sz < end
Rar5HasExtraWalk(buf, added, l, q, fname_len) ==
    /\ added
    /\ l.has_extra
    /\ ~WIsZero(l.extra_sz)
    /\ ~WGtNat(l.extra_sz, Len(buf) - q - fname_len - 1)

Rar5File ==
    /\ pc = "rar5_file"
    /\ \E h \in {Rar5ReadFile(input, tail, p)} :
          IF h.msg # "" THEN Reject(h.msg)
          ELSE IF h.is_directory
          THEN /\ pc' = "rar5_skip"
               /\ p' = h.p
               /\ loc' = [loc EXCEPT !.uncomp_sz = h.uncomp_sz]
               /\ UNCHANGED <<arch, part>>
          ELSE \E g \in CharsetGuesses(BytesAt(input, tail, h.p, h.fname_len)) :
                  /\ arch' = AddFile(arch,
                        rspamd_archive_file_try_utf(
                            [NewFile EXCEPT !.uncompressed_size = h.uncomp_sz,
                                            !.compressed_size = loc.comp_sz],
                            BytesAt(input, tail, h.p, h.fname_len), g))
                  /\ p' = h.p
                  /\ loc' = [loc EXCEPT !.uncomp_sz = h.uncomp_sz,
                                        !.fname_len = h.fname_len,
                                        !.ex = h.p + h.fname_len]
                  /\ pc' = IF Rar5HasExtraWalk(input, Len(arch'.files) > Len(arch.files),
                                               loc, h.p, h.fname_len)
                           THEN "rar5_extra" ELSE "rar5_skip"
                  /\ UNCHANGED part
    /\ UNCHANGED <<input, tail, uninit, cdname, ext, oob>>
    /\ UNCHANGED writerVars

\* f->flags |= RSPAMD_ARCHIVE_FILE_ENCRYPTED on the entry just added;
\* arch->flags |= RSPAMD_ARCHIVE_ENCRYPTED
Rar5MarkEncrypted(a) ==
    [a EXCEPT !.files[Len(a.files)].flags = @ \cup {"encrypted"},
              !.flags = @ \cup {"encrypted"}]

\* ex += cur_sz, for a cur_sz that may be far beyond the buffer
Rar5ExtraAdvance(ex, cur_sz, bound) ==
    IF WSmall(cur_sz) THEN ex + WNat(cur_sz) ELSE bound

\* one iteration of while (ex < p + extra_sz): the size and the type of an
\* extra record, then ex += cur_sz
Rar5Extra ==
    /\ pc = "rar5_extra"
    /\ loc.ex < p + WNat(loc.extra_sz)
    /\ \E v1 \in {rspamd_archive_rar_read_vint(input, tail, loc.ex, WNat(loc.extra_sz))} :
          IF v1.r = -1
          THEN /\ Reject("rar archive is invalid (bad vint)")
               /\ oob' = (oob \/ Outside(input, loc.ex, v1.reads))
          ELSE \E v2 \in {rspamd_archive_rar_read_vint(input, tail, loc.ex + v1.r,
                                                      WNat(loc.extra_sz) - v1.r)} :
                  /\ oob' = (oob \/ Outside(input, loc.ex, v1.reads + v2.reads))
                  /\ IF v2.r = -1 THEN Reject("rar archive is invalid (bad vint)")
                     ELSE IF v2.val = W(1)
                     THEN /\ arch' = Rar5MarkEncrypted(arch)
                          /\ pc' = "rar5_skip"
                          /\ UNCHANGED <<part, p, loc>>
                     ELSE /\ loc' = [loc EXCEPT !.ex = Rar5ExtraAdvance(
                                        @, v1.val, p + WNat(loc.extra_sz))]
                          /\ pc' = "rar5_extra"
                          /\ UNCHANGED <<part, p, arch>>
    /\ UNCHANGED <<input, tail, uninit, cdname, ext>>
    /\ UNCHANGED writerVars

\* the extra-area loop test fails: on to the end of the record
Rar5ExtraEnd ==
    /\ pc = "rar5_extra"
    /\ loc.ex >= p + WNat(loc.extra_sz)
    /\ pc' = "rar5_skip"
    /\ UNCHANGED readerVars
    /\ UNCHANGED writerVars

\* p = section_start; RAR_SKIP_BYTES(sz); and back to the loop test
Rar5Skip ==
    /\ pc = "rar5_skip"
    /\ IF RarSkipMsg(input, loc.start_section, loc.sz) # ""
       THEN Reject(RarSkipMsg(input, loc.start_section, loc.sz))
       ELSE /\ p' = loc.start_section + WNat(loc.sz)
            /\ pc' = "rar5"
            /\ UNCHANGED <<part, arch, loc>>
    /\ UNCHANGED <<input, tail, uninit, cdname, ext, oob>>
    /\ UNCHANGED writerVars

\* the loop ends (p >= end): the archive is attached
Rar5End ==
    /\ pc = "rar5"
    /\ p >= Len(input)
    /\ part' = Attach(part, arch, input)
    /\ loc' = [loc EXCEPT !.msg = "attached"]
    /\ pc' = "post"
    /\ UNCHANGED <<input, tail, uninit, cdname, ext, arch, p, oob>>
    /\ UNCHANGED writerVars

----------------------------------------------------------------------------
(* rspamd_archive_process_zip *)

max_processed == 1024
cd_basic_len == 46

\* the search for the end-of-central-directory record: from len - 22 down,
\* while p > start + 4 and at most max_processed + 1 places; -1 when the
\* signature is not found
ZipFindEocd(buf) ==
    LET hits == {q \in Max(5, Len(buf) - 22 - max_processed)..(Len(buf) - 22) :
                    SubSeq(buf, q + 1, q + 4) = <<80, 75, 5, 6>>}
    IN IF hits = {} THEN -1 ELSE CHOOSE q \in hits : \A r \in hits : r <= q

\* cd_offset + cd_size > (unsigned int) (eocd - start), in 32 bits
ZipBadExtent(buf, tl, eocd) ==
    WGtNat(WTrunc32(WAdd(WFromBytes(BytesAt(buf, tl, eocd + 16, 4)),
                         WFromBytes(BytesAt(buf, tl, eocd + 12, 4)))), eocd)

\* cd = start + cd_offset and the loop bound start + cd_offset + cd_size
\* leave the buffer when the 32-bit sum that passed the check had wrapped;
\* the pointers then depend on the width of an address: with 64 bits they
\* lie far behind the buffer, with 32 bits they wrap as the sum did
ZipPointerWidths(sum) == IF sum = WTrunc32(sum) THEN {64} ELSE {32, 64}

\* 2^32 - w for a 32-bit w
WNeg32(w) == WTrunc32(WAdd([i \in WLimbs |-> IF i <= 4 THEN 255 - w[i] ELSE 0], W(1)))

\* start + off as an offset from start when addresses have 32 bits, for a
\* buffer at an address a with a + off >= 2^32 when off >= 2^31
ZipPtr32(off) == IF off[4] >= 128 THEN 0 - WNat(WNeg32(off)) ELSE WNat(off)

\* the search and the checks that precede the record loop
ZipStart ==
    /\ pc = "zip"
    /\ \E eocd \in {ZipFindEocd(input)} :
          IF eocd = -1 THEN Reject("zip archive is invalid (no EOCD)")
          ELSE IF (Len(input) - 1) - eocd < 21
          THEN Reject("zip archive is invalid (short EOCD)")
          ELSE IF ZipBadExtent(input, tail, eocd)
          THEN Reject("zip archive is invalid (bad size/offset for CD)")
          ELSE \E off \in {WFromBytes(BytesAt(input, tail, eocd + 16, 4))} :
               \E sum \in {WAdd(off, WFromBytes(BytesAt(input, tail, eocd + 12, 4)))} :
               \E w \in ZipPointerWidths(sum) :
                  /\ arch' = NewArch("zip")
                  /\ p' = IF w = 32 THEN ZipPtr32(off) ELSE WNat(off)
                  /\ loc' = [loc EXCEPT
                               !.eocd = eocd,
                               !.cd_end = IF w = 32 THEN WTrunc32(sum) ELSE sum]
                  /\ pc' = "zip_cd"
                  /\ UNCHANGED part
    /\ UNCHANGED <<input, tail, uninit, cdname, ext, oob>>
    /\ UNCHANGED writerVars

RECURSIVE ZipExtraHas(_, _, _, _, _)
\* the walk over the extra fields from q to end: some header id is hid
ZipExtraHas(buf, tl, q, end, hid) ==
    IF q + 4 < end
    THEN \/ U16At(buf, tl, q) = hid
         \/ ZipExtraHas(buf, tl, q + U16At(buf, tl, q + 2) + 4, end, hid)
    ELSE FALSE

\* one central directory record at offset q
ZipReadCd(buf, tl, q, eocd) ==
    LET fname_len == U16At(buf, tl, q + 28)
        extra_len == U16At(buf, tl, q + 30)
        total     == fname_len + U16At(buf, tl, q + 32) + extra_len + cd_basic_len
        extra     == q + fname_len + cd_basic_len
    IN [msg |-> IF eocd - q < cd_basic_len \/ BytesAt(buf, tl, q, 4) # <<80, 75, 1, 2>>
                THEN "zip archive is invalid (bad cd record)"
                ELSE IF q + total > eocd THEN "zip archive is invalid (too large cd record)"
                ELSE "",
        name |-> BytesAt(buf, tl, q + cd_basic_len, fname_len),
        compressed_size |-> WFromBytes(BytesAt(buf, tl, q + 20, 4)),
        uncompressed_size |-> WFromBytes(BytesAt(buf, tl, q + 24, 4)),
        encrypted |-> \/ BitSet(U16At(buf, tl, q + 8), 0)
                      \/ BitSet(U16At(buf, tl, q + 8), 6)
                      \/ ZipExtraHas(buf, tl, extra, extra + extra_len, 23),
        next |-> q + total]

\* cd < start + cd_offset + cd_size; a cd before the buffer is below the
\* bound, which the check has left at or before eocd
ZipMore(q, cd_end) == q < 0 \/ WLt(W(q), cd_end)

\* what the memory before the buffer may hold when cd points there
ZipHead(q) == IF q < 0 THEN {Rep(b, 0 - q) : b \in {0, 80}} ELSE {<<>>}

\* one pass of while (cd < start + cd_offset + cd_size)
ZipCdRecord ==
    /\ pc = "zip_cd"
    /\ ZipMore(p, loc.cd_end)
    /\ \E hd \in ZipHead(p) :
       \E h \in {ZipReadCd(hd \o input, tail, p + Len(hd), loc.eocd + Len(hd))} :
          IF h.msg # "" THEN Reject(h.msg)
          ELSE \E g \in CharsetGuesses(h.name) :
                  /\ arch' = AddFile(arch,
                        [rspamd_archive_file_try_utf(NewFile, h.name, g) EXCEPT
                            !.compressed_size = h.compressed_size,
                            !.uncompressed_size = h.uncompressed_size,
                            !.flags = @ \cup (IF h.encrypted THEN {"encrypted"} ELSE {})])
                  /\ p' = h.next - Len(hd)
                  /\ UNCHANGED <<pc, loc, part>>
    /\ oob' = (oob \/ (p < 0 /\ loc.eocd - p >= cd_basic_len))
    /\ UNCHANGED <<input, tail, uninit, cdname, ext>>
    /\ UNCHANGED writerVars

\* the loop ends: the archive is attached
ZipEnd ==
    /\ pc = "zip_cd"
    /\ ~ZipMore(p, loc.cd_end)
    /\ part' = Attach(part, arch, input)
    /\ loc' = [loc EXCEPT !.msg = "attached"]
    /\ pc' = "post"
    /\ UNCHANGED <<input, tail, uninit, cdname, ext, arch, p, oob>>
    /\ UNCHANGED writerVars


----------------------------------------------------------------------------
(* 7-Zip: the variable-length integer and the reading macros.              *)
(* The parsing functions take the memory m = [buf, tl, un] and the parsing  *)
(* state st and give the state at their return; st.p = -1 is the NULL       *)
(* pointer they return on failure.                                          *)

\* the number of extra bytes announced by a first byte t in 0x80..0xFE: the
\* first clear bit from bit 6 down to bit 1; 0 when there is none (0xFE)
SzIntLen(t) ==
    IF t < 192 THEN 1 ELSE IF t < 224 THEN 2 ELSE IF t < 240 THEN 3
    ELSE IF t < 248 THEN 4 ELSE IF t < 252 THEN 5 ELSE IF t < 254 THEN 6 ELSE 0

\* memcpy(&tgt, start + 1, intlen) into the uninitialised tgt; tgt >>=
\* sizeof(tgt) - NBBY * intlen, the count taken modulo 64 as the shift
\* instructions do (0 for intlen 1, else 64 - 8 * (intlen - 1)); then
\* tgt += (t & (0xFF >> (NBBY - cur_bit))) << (NBBY * intlen)
SzVintValue(m, q, t, intlen) ==
    WAdd([i \in WLimbs |->
             IF intlen = 1
             THEN (IF i = 1 THEN ByteAt(m.buf, m.tl, q + 1) ELSE m.un[i])
             ELSE IF i + 9 - intlen > 8 THEN 0
             ELSE IF i + 9 - intlen <= intlen THEN ByteAt(m.buf, m.tl, q + i + 9 - intlen)
             ELSE m.un[i + 9 - intlen]],
         [i \in WLimbs |-> IF i = intlen + 1 THEN t % (2 ^ (7 - intlen)) ELSE 0])

\* r is the return value (-1 on failure), val is *res
rspamd_archive_7zip_read_vint(m, q, remain) ==
    LET t == ByteAt(m.buf, m.tl, q)
    IN IF remain = 0 THEN [r |-> -1, val |-> W(0)]
       ELSE IF t < 128 THEN [r |-> 1, val |-> W(t)]
       ELSE IF t = 255
       THEN (IF remain >= 9
             THEN [r |-> 9, val |-> WFromBytes(BytesAt(m.buf, m.tl, q + 1, 8))]
             ELSE [r |-> -1, val |-> W(0)])
       ELSE IF SzIntLen(t) = 0 \/ remain < SzIntLen(t) + 1 THEN [r |-> -1, val |-> W(0)]
       ELSE [r |-> SzIntLen(t) + 1, val |-> SzVintValue(m, q, t, SzIntLen(t))]

SzNull(st) == [st EXCEPT !.p = -1]

\* SZ_SKIP_BYTES(n)
SzSkipBytes(m, st, n) ==
    IF st.p = -1 THEN st
    ELSE IF Len(m.buf) - st.p >= n THEN [st EXCEPT !.p = @ + n]
    ELSE SzNull(st)

\* SZ_READ_VINT(var): the value goes to the field f of the state
SzReadVint(m, st, f) ==
    IF st.p = -1 THEN st
    ELSE IF rspamd_archive_7zip_read_vint(m, st.p, Len(m.buf) - st.p).r = -1 THEN SzNull(st)
    ELSE [st EXCEPT
            !.p = @ + rspamd_archive_7zip_read_vint(m, st.p, Len(m.buf) - st.p).r,
            ![f] = rspamd_archive_7zip_read_vint(m, st.p, Len(m.buf) - st.p).val]

RECURSIVE SzReadVints(_, _, _)
\* k times SZ_READ_VINT(tmp)
SzReadVints(m, st, k) ==
    IF k <= 0 \/ st.p = -1 THEN st ELSE SzReadVints(m, SzReadVint(m, st, "v"), k - 1)

\* t = *p; SZ_SKIP_BYTES(1): the byte is read before the check, and kept
\* in st.t
SzReadTag(m, st) ==
    IF st.p = -1 THEN st
    ELSE [SzSkipBytes(m, st, 1) EXCEPT !.t = ByteAt(m.buf, m.tl, st.p),
                                       !.oob = @ \/ ~InBuf(m.buf, st.p)]

\* a + b for counts, kept within -2^30..2^30
SzAdd(a, b) ==
    IF a > 0 /\ b > 0 /\ a >= 1073741824 - b THEN 1073741824
    ELSE IF a < 0 /\ b < 0 /\ a <= (-1073741824) - b THEN -1073741824
    ELSE a + b

\* var += tmp for the value just read
SzAddTo(st, f) == IF st.p = -1 THEN st ELSE [st EXCEPT ![f] = SzAdd(@, WNat(st.v))]

\* rspamd_7zip_read_bits: st.n counts the bits set
rspamd_7zip_read_bits(m, st, nbits) ==
    IF st.p = -1 THEN st
    ELSE IF Len(m.buf) - st.p >= (nbits + 7) \div 8
    THEN [st EXCEPT
            !.p = @ + (nbits + 7) \div 8,
            !.n = Cardinality({i \in 0..(nbits - 1) :
                     BitSet(ByteAt(m.buf, m.tl, st.p + i \div 8), 7 - (i % 8))})]
    ELSE [st EXCEPT !.p = -1, !.oob = TRUE]

\* for (i = 0; i < num_defined; i++) SZ_SKIP_BYTES(sizeof(uint32_t))
SzSkipCrcs(m, st) ==
    IF st.p = -1 THEN st
    ELSE IF st.n > Len(m.buf) THEN SzNull(st)
    ELSE SzSkipBytes(m, st, 4 * st.n)

\* the digest block after its AllAreDefined byte (st.t); st.n is
\* num_defined
SzDigestBody(m, st, num_streams) ==
    IF st.p = -1 THEN st
    ELSE IF st.t # 0 THEN SzSkipCrcs(m, [st EXCEPT !.n = WNat(WTrunc32(num_streams))])
    ELSE IF WGtNat(num_streams, 8192) THEN SzNull(st)
    ELSE SzSkipCrcs(m, rspamd_7zip_read_bits(m, [st EXCEPT !.n = 0], WNat(num_streams)))

rspamd_7zip_read_digest(m, st, num_streams) ==
    SzDigestBody(m, SzReadTag(m, st), num_streams)

RECURSIVE SzPackLoop(_, _)
\* the tag loop of rspamd_7zip_read_pack_info; st.ns is pack_streams
SzPackLoop(m, st) ==
    IF st.p = -1 \/ st.p >= Len(m.buf) THEN st
    ELSE LET s == SzReadTag(m, st)
         IN IF s.t = 9 THEN SzPackLoop(m, SzReadVints(m, s, WNat(s.ns)))
            ELSE IF s.t = 10 THEN SzPackLoop(m, rspamd_7zip_read_digest(m, s, s.ns))
            ELSE IF s.t = 0 THEN s
            ELSE SzNull(s)

rspamd_7zip_read_pack_info(m, st) ==
    SzPackLoop(m, SzReadVint(m, SzReadVint(m, st, "v"), "ns"))


\* IS_SZ_ENCRYPTED(tmp) for the codec id accumulated from the bytes bs by
\* tmp <<= 8; tmp += p[j]: the last eight bytes count
IsSzEncrypted(bs) ==
    [i \in 1..8 |-> IF Len(bs) - 8 + i >= 1 THEN bs[Len(bs) - 8 + i] ELSE 0]
        \in {<<0, 0, 0, 0, 6, 241, 1, 1>>, <<0, 0, 0, 0, 6, 241, 3, 3>>,
             <<0, 0, 0, 0, 6, 241, 7, 1>>}

\* the codec id of a coder whose first byte is st.t: the id bytes are read,
\* then skipped with a check
SzCoderId(m, st) ==
    IF st.p = -1 THEN st
    ELSE [SzSkipBytes(m, st, st.t % 16) EXCEPT
            !.oob = @ \/ Outside(m.buf, st.p, st.t % 16),
            !.enc = @ \/ IsSzEncrypted(BytesAt(m.buf, m.tl, st.p, st.t % 16))]

\* the stream counts of a coder
SzCoderStreams(m, st) ==
    IF st.p = -1 THEN st
    ELSE IF BitSet(st.t, 4)
    THEN SzAddTo(SzReadVint(m, SzAddTo(SzReadVint(m, st, "v"), "nin"), "v"), "nout")
    ELSE [st EXCEPT !.nin = SzAdd(@, 1), !.nout = SzAdd(@, 1)]

\* SZ_SKIP_BYTES(tmp) for the value just read
SzSkipRead(m, st) == IF st.p = -1 THEN st ELSE SzSkipBytes(m, st, WNat(st.v))

\* the attributes of a coder
SzCoderAttrs(m, st) ==
    IF st.p = -1 \/ ~BitSet(st.t, 5) THEN st
    ELSE SzSkipRead(m, SzReadVint(m, st, "v"))

RECURSIVE SzCoders(_, _, _)
\* for (i = 0; i < ncoders && p != NULL && p < end; i++)
SzCoders(m, st, i) ==
    IF st.p = -1 \/ st.p >= Len(m.buf) \/ i >= WNat(st.nc) THEN st
    ELSE SzCoders(m, SzCoderAttrs(m, SzCoderStreams(m, SzCoderId(m, SzReadTag(m, st)))),
                  i + 1)

\* the bind pairs, the packed streams and the two results: st.n is
\* *pnstreams, st.np what is added to *ndigests
SzFolderTail(m, st) ==
    IF st.p = -1 THEN st
    ELSE [SzReadVints(m, SzReadVints(m, st, IF st.nout > 1 THEN 2 * (st.nout - 1) ELSE 0),
                      IF st.nin - st.nout + 1 > 1 THEN st.nin - st.nout + 1 ELSE 0)
          EXCEPT !.n = st.nout, !.np = st.nin - st.nout + 1]

rspamd_7zip_read_folder(m, st) ==
    SzFolderTail(m, SzCoders(m, SzReadVint(m, [st EXCEPT !.nin = 0, !.nout = 0], "nc"), 0))

\* folder_nstreams == NULL
SzNoTable == <<-2>>

\* folder_nstreams[i] and num_digests after a folder has been read
SzFolderDone(st, i) ==
    IF st.p = -1 THEN st
    ELSE [st EXCEPT !.fs[i + 1] = st.n, !.ndig = SzAdd(@, st.np)]

RECURSIVE SzFolders(_, _, _)
\* for (i = 0; i < num_folders && p != NULL && p < end; i++)
SzFolders(m, st, i) ==
    IF st.p = -1 \/ st.p >= Len(m.buf) \/ i >= WNat(st.nf) THEN st
    ELSE SzFolders(m, SzFolderDone(rspamd_7zip_read_folder(m, st), i), i + 1)

\* kFolder after NumFolders and the External byte (st.t): the external
\* index, or a fresh table (g_malloc: entries -1 are not initialised) that
\* the folders fill
SzFolderTable(m, st) ==
    IF st.p = -1 THEN st
    ELSE IF st.t # 0 THEN SzReadVint(m, st, "v")
    ELSE IF WGtNat(st.nf, 8192) THEN SzNull(st)
    ELSE SzFolders(m, [st EXCEPT !.fs = [i \in 1..WNat(st.nf) |-> -1]], 0)

\* folder_nstreams[i] as kCodersUnPackSize reads it: the entry if it was
\* written, else what the memory holds
SzTableEntry(m, st, i) ==
    IF i + 1 <= Len(st.fs) /\ st.fs[i + 1] # -1 THEN st.fs[i + 1] ELSE m.un[1]

RECURSIVE SzUnpackSizes(_, _, _)
\* kCodersUnPackSize: folder_nstreams[i] vints for every i < num_folders;
\* st.wild records a read of an entry that was never written
SzUnpackSizes(m, st, i) ==
    IF st.p = -1 \/ st.p >= Len(m.buf) \/ i >= WNat(st.nf) \/ st.fs = SzNoTable THEN st
    ELSE SzUnpackSizes(m,
            SzReadVints(m, [st EXCEPT !.wild = @ \/ i + 1 > Len(st.fs) \/ st.fs[i + 1] = -1],
                        SzTableEntry(m, st, i)),
            i + 1)

\* digests_read = num_defined
SzDigestsRead(st) == IF st.p = -1 THEN st ELSE [st EXCEPT !.dread = st.n]

RECURSIVE SzCodersLoop(_, _)
\* the tag loop of rspamd_7zip_read_coders_info
SzCodersLoop(m, st) ==
    IF st.p = -1 \/ st.p >= Len(m.buf) THEN st
    ELSE LET s == SzReadTag(m, st)
         IN IF s.t = 11
            THEN SzCodersLoop(m, SzFolderTable(m, SzReadTag(m, SzReadVint(m, s, "nf"))))
            ELSE IF s.t = 12 THEN SzCodersLoop(m, SzUnpackSizes(m, s, 0))
            ELSE IF s.t = 10
            THEN SzCodersLoop(m, SzDigestsRead(rspamd_7zip_read_digest(m, s, W(s.ndig))))
            ELSE IF s.t = 0 THEN s
            ELSE SzNull(s)

\* *pnum_nodigest = num_digests - digests_read; *pnum_folders = num_folders
SzCodersOut(st) ==
    IF st.p = -1 THEN st
    ELSE [st EXCEPT !.unknown_digests = st.ndig - st.dread,
                    !.num_folders = WTrunc32(st.nf)]

rspamd_7zip_read_coders_info(m, st) ==
    SzCodersOut(SzCodersLoop(m, [st EXCEPT !.nf = W(0), !.fs = SzNoTable, !.ndig = 0,
                                           !.dread = 0]))

RECURSIVE SzSumVints(_, _, _)
\* kNumUnPackStream: folder_nstreams[i] = tmp for every folder; st.sum is the
\* sum of the table
SzSumVints(m, st, k) ==
    IF k <= 0 \/ st.p = -1 THEN st
    ELSE SzSumVints(m, SzAddTo(SzReadVint(m, st, "v"), "sum"), k - 1)

RECURSIVE SzSubLoop(_, _)
\* the tag loop of rspamd_7zip_read_substreams_info
SzSubLoop(m, st) ==
    IF st.p = -1 \/ st.p >= Len(m.buf) THEN st
    ELSE LET s == SzReadTag(m, st)
         IN IF s.t = 13
            THEN SzSubLoop(m, SzSumVints(m, [s EXCEPT !.sum = 0], WNat(s.num_folders)))
            ELSE IF s.t = 10
            THEN SzSubLoop(m, rspamd_7zip_read_digest(m, s, W(s.unknown_digests)))
            ELSE IF s.t = 9 THEN SzSubLoop(m, SzReadVints(m, s, s.sum))
            ELSE IF s.t = 0 THEN s
            ELSE SzNull(s)

rspamd_7zip_read_substreams_info(m, st) ==
    IF WGtNat(st.num_folders, 8192) THEN SzNull(st)
    ELSE SzSubLoop(m, [st EXCEPT !.sum = 0])

RECURSIVE SzStreamsLoop(_, _)
\* the tag loop of rspamd_7zip_read_main_streams_info
SzStreamsLoop(m, st) ==
    IF st.p = -1 \/ st.p >= Len(m.buf) THEN st
    ELSE LET s == SzReadTag(m, st)
         IN IF s.t = 6 THEN SzStreamsLoop(m, rspamd_7zip_read_pack_info(m, s))
            ELSE IF s.t = 7 THEN SzStreamsLoop(m, rspamd_7zip_read_coders_info(m, s))
            ELSE IF s.t = 8 THEN SzStreamsLoop(m, rspamd_7zip_read_substreams_info(m, s))
            ELSE IF s.t = 0 THEN s
            ELSE SzNull(s)

rspamd_7zip_read_main_streams_info(m, st) ==
    SzStreamsLoop(m, [st EXCEPT !.num_folders = W(0), !.unknown_digests = 0])


\* if (p + proplen < end) p += proplen; else return NULL
SzPropSkip(m, st) ==
    IF st.p = -1 THEN st
    ELSE IF WNat(st.v) < Len(m.buf) - st.p THEN [st EXCEPT !.p = @ + WNat(st.v)]
    ELSE SzNull(st)

RECURSIVE SzProps(_, _)
\* while (proptype != 0), the property type being st.t
SzProps(m, st) ==
    IF st.p = -1 \/ st.t = 0 THEN st
    ELSE SzProps(m, SzReadTag(m, SzPropSkip(m, SzReadVint(m, st, "v"))))

rspamd_7zip_read_archive_props(m, st) == SzProps(m, SzReadTag(m, st))

\* rspamd_7zip_ucs2_to_utf8 for the bytes bs of a name: fname, or Bad (NULL)
\* when U8_APPEND refuses a code point
rspamd_7zip_ucs2_to_utf8(bs) ==
    Utf8Encode(U16CodePoints([i \in 1..(Len(bs) \div 2) |-> bs[2 * i - 1] + 256 * bs[2 * i]]))

\* the offset of the first aligned 16-bit zero at or after q (tp < end - 1),
\* -1 if there is none
SzNameEnd(m, q) ==
    LET ends == {e \in q..(Len(m.buf) - 2) :
                    /\ (e - q) % 2 = 0
                    /\ ByteAt(m.buf, m.tl, e) = 0 /\ ByteAt(m.buf, m.tl, e + 1) = 0}
    IN IF ends = {} THEN -1 ELSE CHOOSE e \in ends : \A x \in ends : e <= x

\* a variant of SzAddName that adds the entry whatever the conversion gave
SzAddNameAlways(st, res) ==
    [st EXCEPT !.files = Append(@, [NewFile EXCEPT !.fname = res])]

\* fentry = g_malloc0(...); fentry->fname = res; g_ptr_array_add
SzAddName(st, res) ==
    IF res = Bad THEN st ELSE [st EXCEPT !.files = Append(@, [NewFile EXCEPT !.fname = res])]

RECURSIVE SzNames(_, _, _)
\* for (i = 0; i < nfiles; i++): st.stop is the goto end on a bad name
SzNames(m, st, i) ==
    IF i >= WNat(st.nfiles) THEN st
    ELSE IF SzNameEnd(m, st.p) = -1 \/ SzNameEnd(m, st.p) = st.p THEN [st EXCEPT !.stop = TRUE]
    ELSE SzNames(m, [SzAddName(st, rspamd_7zip_ucs2_to_utf8(
                                      BytesAt(m.buf, m.tl, st.p, SzNameEnd(m, st.p) - st.p)))
                     EXCEPT !.p = SzNameEnd(m, st.p) + 2],
                 i + 1)

\* kName after its External byte (st.t)
SzNameProp(m, st) ==
    IF st.p = -1 THEN st
    ELSE IF st.t # 0 THEN SzReadVint(m, st, "v")
    ELSE SzNames(m, st, 0)

\* the switch of rspamd_7zip_read_files_info, the property size being read
SzFileProp(m, st) ==
    IF st.p = -1 THEN st
    ELSE IF st.t \in {14, 15, 16, 18, 19, 20, 25, 21} THEN SzSkipRead(m, st)
    ELSE IF st.t = 17 THEN SzNameProp(m, SzReadTag(m, st))
    ELSE SzNull(st)

RECURSIVE SzFilesLoop(_, _)
SzFilesLoop(m, st) ==
    IF st.p = -1 \/ st.p >= Len(m.buf) \/ st.stop THEN st
    ELSE LET s == SzReadTag(m, st)
         IN IF s.t = 0 THEN s
            ELSE SzFilesLoop(m, SzFileProp(m, SzReadVint(m, s, "v")))

rspamd_7zip_read_files_info(m, st) ==
    SzFilesLoop(m, SzReadVint(m, [st EXCEPT !.stop = FALSE], "nfiles"))

\* the switch of rspamd_7zip_read_next_section on the section byte st.t,
\* but for kEncodedHeader
SzSection(m, st) ==
    IF st.p = -1 \/ st.t = 1 THEN st
    ELSE IF st.t = 2 THEN rspamd_7zip_read_archive_props(m, st)
    ELSE IF st.t \in {3, 4} THEN rspamd_7zip_read_main_streams_info(m, st)
    ELSE IF st.t = 5 THEN rspamd_7zip_read_files_info(m, st)
    ELSE SzNull(st)

rspamd_7zip_read_next_section(m, st) == SzSection(m, SzReadTag(m, st))

\* the parsing state at the call of rspamd_7zip_read_next_section
SzState(q) ==
    [p |-> q, oob |-> FALSE, enc |-> FALSE, files |-> <<>>, stop |-> FALSE, wild |-> FALSE,
     t |-> 0, n |-> 0, np |-> 0, nin |-> 0, nout |-> 0, ndig |-> 0, dread |-> 0, sum |-> 0,
     unknown_digests |-> 0, fs |-> SzNoTable,
     v |-> W(0), ns |-> W(0), nc |-> W(0), nf |-> W(0), nfiles |-> W(0),
     num_folders |-> W(0)]

----------------------------------------------------------------------------
(* rspamd_archive_process_7zip *)

\* the signature header: magic, version, crc32, the offset and the length
\* of the next header, its crc32
SzHeaderMsg(buf, tl) ==
    IF Len(buf) <= 12 \/ Take(buf, 6) # <<55, 122, 188, 175, 39, 28>>
    THEN "7z archive is invalid (no 7z magic)"
    ELSE IF Len(buf) - 12 < 8 \/ Len(buf) - 20 < 8
    THEN "7zip archive is invalid (bad uint64)"
    ELSE IF ~(Len(buf) - 28 > 4) THEN "7z archive is invalid (truncated crc)"
    ELSE IF ~WGtNat(W(Len(buf) - 32), WNat(WFromBytes(BytesAt(buf, tl, 12, 8)))) 
    THEN "7z archive is invalid (incorrect section offset)"
    ELSE ""

SzStart ==
    /\ pc = "7zip"
    /\ IF SzHeaderMsg(input, tail) # "" THEN Reject(SzHeaderMsg(input, tail))
       ELSE /\ arch' = NewArch("7zip")
            /\ p' = 32 + WNat(WFromBytes(BytesAt(input, tail, 12, 8)))
            /\ pc' = "7zip_section"
            /\ UNCHANGED <<loc, part>>
    /\ UNCHANGED <<input, tail, uninit, cdname, ext, oob>>
    /\ UNCHANGED writerVars

\* one call of rspamd_7zip_read_next_section from the loop, for any section
\* but kEncodedHeader
SzNextSection ==
    /\ pc = "7zip_section"
    /\ ~(p < Len(input) /\ input[p + 1] = 23)
    /\ \E r \in {rspamd_7zip_read_next_section(
                    [buf |-> input, tl |-> tail, un |-> uninit], SzState(p))} :
          /\ arch' = [arch EXCEPT
                         !.files = @ \o r.files,
                         !.flags = @ \cup (IF r.enc THEN {"encrypted"} ELSE {})]
          /\ oob' = (oob \/ r.oob)
          /\ loc' = [loc EXCEPT !.wild = @ \/ r.wild,
                                 !.malformed = r.p = -1 /\ ~(InBuf(input, p) /\ input[p + 1] = 0)]
          /\ p' = r.p
          /\ pc' = IF r.p = -1 THEN "7zip_end" ELSE "7zip_section"
    /\ UNCHANGED <<input, tail, uninit, cdname, ext, part>>
    /\ UNCHANGED writerVars

\* what libarchive makes of an archive with an encoded header: it cannot
\* open it, or it lists the path names (Bad: archive_entry_pathname_utf8
\* returned NULL) and tells whether entries are encrypted
LibarchiveOutcomes ==
    {[open |-> FALSE, names |-> <<>>, encrypted |-> FALSE]}
    \cup {[open |-> TRUE, names |-> ns, encrypted |-> e] :
             ns \in {<<>>, <<<<97>>>>, <<<<97>>, <<97, 1>>>>, <<Bad, <<98>>>>}, e \in BOOLEAN}

RECURSIVE LibarchiveFiles(_)
\* while (archive_read_next_header(...) == ARCHIVE_OK): if (name) { f =
\* g_malloc0(...); f->fname = g_string_new(name); g_ptr_array_add(...) }
LibarchiveFiles(names) ==
    IF names = <<>> THEN <<>>
    ELSE (IF Head(names) = Bad THEN <<>> ELSE <<[NewFile EXCEPT !.fname = Head(names)]>>)
         \o LibarchiveFiles(Tail(names))

\* kEncodedHeader: libarchive reads the archive; it cannot open it, or it
\* lists the entries, which replace arch->files
SzEncodedHeader ==
    /\ pc = "7zip_section"
    /\ p < Len(input) /\ input[p + 1] = 23
    /\ \E o \in LibarchiveOutcomes :
          /\ arch' = IF ~o.open THEN arch
                     ELSE [arch EXCEPT
                             !.files = LibarchiveFiles(o.names),
                             !.flags = @ \cup (IF o.encrypted THEN {"encrypted"} ELSE {})]
          /\ loc' = [loc EXCEPT !.malformed = ~o.open]
    /\ p' = -1
    /\ pc' = "7zip_end"
    /\ UNCHANGED <<input, tail, uninit, cdname, ext, part, oob>>
    /\ UNCHANGED writerVars

\* the section loop is left: the archive is attached
SzEnd ==
    /\ pc = "7zip_end"
    /\ part' = Attach(part, arch, input)
    /\ loc' = [loc EXCEPT !.msg = "attached"]
    /\ pc' = "post"
    /\ UNCHANGED <<input, tail, uninit, cdname, ext, arch, p, oob>>
    /\ UNCHANGED writerVars

----------------------------------------------------------------------------
(* rspamd_archives_zip_write.  zlib and OpenSSL are outside the program:    *)
(* a call into them fails or succeeds, and the bytes they produce are       *)
(* stand-ins of the right length.                                           *)

NoName == Bad
\* files == NULL
NoFiles == <<[name |-> Bad, data |-> Bad, mode |-> -1]>>
NoPassword == Bad
NoBytes == Bad

\* a variant of rspamd_zip_validate_name without the test for ':'
ValidateNameNoColon(name) ==
    /\ name # NoName
    /\ name # <<>>
    /\ name[1] # 47 /\ name[1] # 92
    /\ ~HasSub(name, <<46, 46>>)

\* name == NULL || *name == '\0'; name[0] == '/' || name[0] == '\\';
\* strstr(name, ".."); strchr(name, ':')
rspamd_zip_validate_name(name) ==
    /\ name # NoName
    /\ name # <<>>
    /\ name[1] # 47 /\ name[1] # 92
    /\ ~HasSub(name, <<46, 46>>)
    /\ \A i \in 1..Len(name) : name[i] # 58

\* rspamd_zip_time_dos, rspamd_zip_date_dos for the clock of the run
\* (00:00:00 on 1980-01-01)
rspamd_zip_time_dos == 0
rspamd_zip_date_dos == 33

rspamd_zip_write_local_header(ba, name, ver_needed, gp_flags, method, crc, csize, usize, extra_len) ==
    ba \o <<80, 75, 3, 4>> \o LE16(ver_needed) \o LE16(gp_flags) \o LE16(method)
       \o LE16(rspamd_zip_time_dos) \o LE16(rspamd_zip_date_dos)
       \o crc \o LE32(csize) \o LE32(usize) \o LE16(Len(name)) \o LE16(extra_len) \o name

\* a variant of the central header that always gives 0 as the offset of the
\* local header
CentralHeaderZeroOffset(ba, name, ver_needed, gp_flags, method, crc, csize, usize, lfh_offset, mode, extra_len) ==
    ba \o <<80, 75, 1, 2>> \o LE16(3 * 256 + 20) \o LE16(ver_needed) \o LE16(gp_flags)
       \o LE16(method) \o LE16(rspamd_zip_time_dos) \o LE16(rspamd_zip_date_dos)
       \o crc \o LE32(csize) \o LE32(usize) \o LE16(Len(name)) \o LE16(extra_len)
       \o LE16(0) \o LE16(0) \o LE16(0)
       \o <<0, 0>> \o LE16(IF mode # 0 THEN mode ELSE 420)
       \o LE32(0) \o name

\* xattr = ((mode ? mode : 0644) & 0xFFFF) << 16
rspamd_zip_write_central_header(ba, name, ver_needed, gp_flags, method, crc, csize, usize, lfh_offset, mode, extra_len) ==
    ba \o <<80, 75, 1, 2>> \o LE16(3 * 256 + 20) \o LE16(ver_needed) \o LE16(gp_flags)
       \o LE16(method) \o LE16(rspamd_zip_time_dos) \o LE16(rspamd_zip_date_dos)
       \o crc \o LE32(csize) \o LE32(usize) \o LE16(Len(name)) \o LE16(extra_len)
       \o LE16(0) \o LE16(0) \o LE16(0)
       \o <<0, 0>> \o LE16(IF mode # 0 THEN mode ELSE 420)
       \o LE32(lfh_offset) \o name

\* ZIP_AES_EXTRA_ID 0x9901, data size 7, vendor version, 'AE', strength, method
rspamd_zip_write_extra_aes(ba, vendor_version, strength, actual_method) ==
    ba \o LE16(39169) \o LE16(7) \o LE16(vendor_version) \o <<65, 69>> \o <<strength>>
       \o LE16(actual_method)

\* a variant of Patch that writes four bytes too early
PatchTooEarly(ba, off, bs) ==
    [i \in 1..Len(ba) |-> IF i > off - 4 /\ i <= off - 4 + Len(bs) THEN bs[i - off + 4]
                          ELSE ba[i]]

\* *(type *) (zip->data + off) = value: the bytes bs written over ba at off
Patch(ba, off, bs) ==
    [i \in 1..Len(ba) |-> IF i > off /\ i <= off + Len(bs) THEN bs[i - off] ELSE ba[i]]

\* zlib's crc32: a stand-in checksum of 32 bits, never 0
crc32(data) == LE32(1 + Len(data) + 7 * Len(SelectSeq(data, LAMBDA b : b % 2 = 1)))

\* what deflate may produce for the data: shorter, as long, longer
DeflateOutputs(data) == {Rep(171, n) : n \in {Len(data) \div 2, Len(data), Len(data) + 2}}

\* the AES-CTR keystream applied to the bytes, the first 10 bytes of the
\* HMAC-SHA1, the salt and the password verifier: stand-ins
AesCtr(bs) == [i \in 1..Len(bs) |-> (bs[i] + 77) % 256]
Mac10 == Rep(204, 10)
Salt16 == Rep(17, 16)
PwVerify == <<34, 34>>

\* the ways the library calls of one entry go: the first failing call (""
\* when none fails) and the output of deflate
WriterOutcomes(data, use_aes) ==
    {[fail |-> "", packed |-> z] : z \in DeflateOutputs(data)}
    \cup {[fail |-> e, packed |-> <<>>] :
             e \in (IF use_aes
                    THEN {"cannot generate AES salt", "PBKDF2(HMAC-SHA1) failed",
                          "AES-CTR init failed", "AES-CTR encrypt failed"}
                    ELSE {})
                   \cup {"deflateInit2 failed", "deflate failed"}}

\* a variant of UseAes that tests the pointer only
UseAesNonNull(pw) == pw # NoPassword

\* use_aes = (password != NULL && *password != '\0')
UseAes(pw) == pw # NoPassword /\ pw # <<>>

\* a variant of Stored that keeps a deflate output as long as the data
StoredWhenLonger(f, o) == Len(o.packed) > Len(f.data)

\* produced >= f->len: fallback to store
Stored(f, o) == Len(o.packed) >= Len(f.data)

\* the encrypted branch of one entry: the local header (method 99, crc 0),
\* the AES extra, salt and verifier, the encrypted data, the MAC, then the
\* patches of the compressed size and of the actual method.  Every failure
\* frees cd and zip; dk is wiped but when PBKDF2 fails
ZipWriteAes(ba, cdir, f, o) ==
    IF o.fail # ""
    THEN [msg |-> o.fail, zip |-> NoBytes, cd |-> NoBytes,
          dk |-> IF o.fail = "cannot generate AES salt" THEN "none"
                 ELSE IF o.fail = "PBKDF2(HMAC-SHA1) failed" THEN "freed"
                 ELSE "wiped"]
    ELSE [msg |-> "",
          zip |-> Patch(Patch(
                     rspamd_zip_write_extra_aes(
                         rspamd_zip_write_local_header(ba, f.name, Max(20, 51), 2048 + 1, 99,
                             LE32(0), 0, Len(f.data), 11),
                         2, 3, 8)
                     \o Salt16 \o PwVerify
                     \o AesCtr(IF Stored(f, o) THEN f.data ELSE o.packed) \o Mac10,
                     Len(ba) + 18,
                     LE32(16 + 2 + Len(IF Stored(f, o) THEN f.data ELSE o.packed) + 10)),
                     Len(ba) + 30 + Len(f.name) + 9,
                     LE16(IF Stored(f, o) THEN 0 ELSE 8)),
          cd |-> rspamd_zip_write_extra_aes(
                     rspamd_zip_write_central_header(cdir, f.name, Max(20, 51), 2048 + 1, 99,
                         LE32(0),
                         16 + 2 + Len(IF Stored(f, o) THEN f.data ELSE o.packed) + 10,
                         Len(f.data), Len(ba), f.mode, 11),
                     2, 3, IF Stored(f, o) THEN 0 ELSE 8),
          dk |-> "wiped"]

\* the plain branch of one entry: the local header (method 8), the deflated
\* or stored data, then the patches of the method, the crc and the
\* compressed size.  A failure returns with zip and cd as they are
ZipWritePlain(ba, cdir, f, o) ==
    IF o.fail # ""
    THEN [msg |-> o.fail,
          zip |-> rspamd_zip_write_local_header(ba, f.name, 20, 2048, 8, crc32(f.data), 0,
                                                Len(f.data), 0),
          cd |-> cdir, dk |-> "none"]
    ELSE [msg |-> "",
          zip |-> Patch(Patch(Patch(
                     rspamd_zip_write_local_header(ba, f.name, 20, 2048, 8, crc32(f.data), 0,
                                                   Len(f.data), 0)
                     \o (IF Stored(f, o) THEN f.data ELSE o.packed),
                     Len(ba) + 8, LE16(IF Stored(f, o) THEN 0 ELSE 8)),
                     Len(ba) + 14, crc32(f.data)),
                     Len(ba) + 18, LE32(Len(IF Stored(f, o) THEN f.data ELSE o.packed))),
          cd |-> rspamd_zip_write_central_header(cdir, f.name, 20, 2048,
                     IF Stored(f, o) THEN 0 ELSE 8, crc32(f.data),
                     Len(IF Stored(f, o) THEN f.data ELSE o.packed),
                     Len(f.data), Len(ba), f.mode, 0),
          dk |-> "none"]

\* one pass of for (i = 0; i < nfiles; i++)
ZipWriteOne(ba, cdir, f, pw, o) ==
    IF ~rspamd_zip_validate_name(f.name)
    THEN [msg |-> "invalid zip entry name", zip |-> NoBytes, cd |-> NoBytes, dk |-> "none"]
    ELSE IF UseAes(pw) THEN ZipWriteAes(ba, cdir, f, o)
    ELSE ZipWritePlain(ba, cdir, f, o)

\* if (files == NULL || nfiles == 0) ...; zip = g_byte_array_new(); cd = ...
ZipWriteStart ==
    /\ pc = "zip_write"
    /\ IF files = NoFiles \/ files = <<>>
       THEN /\ loc' = [loc EXCEPT !.msg = "no files to archive"]
            /\ pc' = "write_failed"
            /\ UNCHANGED <<zip, cd>>
       ELSE /\ zip' = <<>>
            /\ cd' = <<>>
            /\ pc' = "zip_write_entry"
            /\ UNCHANGED loc
    /\ UNCHANGED <<input, tail, uninit, cdname, ext, part, arch, p, oob>>
    /\ UNCHANGED <<files, password, wi, winfo, result, crypto>>

ZipWriteEntry ==
    /\ pc = "zip_write_entry"
    /\ wi < Len(files)
    /\ \E o \in WriterOutcomes(files[wi + 1].data, UseAes(password)) :
       \E r \in {ZipWriteOne(zip, cd, files[wi + 1], password, o)} :
          /\ zip' = r.zip
          /\ cd' = r.cd
          /\ crypto' = [crypto EXCEPT !.dk = r.dk]
          /\ loc' = [loc EXCEPT !.msg = r.msg]
          /\ IF r.msg # ""
             THEN pc' = "write_failed" /\ UNCHANGED <<wi, winfo>>
             ELSE /\ pc' = "zip_write_entry"
                  /\ wi' = wi + 1
                  /\ winfo' = Append(winfo, [lfh_off |-> Len(zip), aes |-> UseAes(password),
                                             stored |-> Stored(files[wi + 1], o)])
    /\ UNCHANGED <<input, tail, uninit, cdname, ext, part, arch, p, oob>>
    /\ UNCHANGED <<files, password, result>>

\* the central directory, the end-of-central-directory record, return zip
ZipWriteFinish ==
    /\ pc = "zip_write_entry"
    /\ wi = Len(files)
    /\ zip' = zip \o cd \o <<80, 75, 5, 6>> \o LE16(0) \o LE16(0)
                  \o LE16(Len(files)) \o LE16(Len(files))
                  \o LE32(Len(cd)) \o LE32(Len(zip)) \o LE16(0)
    /\ cd' = NoBytes
    /\ result' = zip'
    /\ pc' = "written"
    /\ UNCHANGED <<input, tail, uninit, cdname, ext, part, arch, p, loc, oob>>
    /\ UNCHANGED <<files, password, wi, winfo, crypto>>

\* the returned array is the content of a part named *.zip
ReadBack ==
    /\ pc = "written"
    /\ input' = result
    /\ pc' = "start"
    /\ UNCHANGED <<tail, uninit, cdname, ext, part, arch, p, loc, oob>>
    /\ UNCHANGED writerVars

----------------------------------------------------------------------------
(* rspamd_archives_encrypt_aes256_cbc *)

\* EVP_EncryptUpdate gives the whole blocks of the input, EVP_EncryptFinal_ex
\* the last block with its padding: lengths as in AES-CBC, bytes stand-ins
CbcUpdate(in) == [i \in 1..(16 * (Len(in) \div 16)) |-> (in[i] + 99) % 256]
CbcFinal(in) ==
    [i \in 1..16 |-> IF i <= Len(in) % 16 THEN (in[16 * (Len(in) \div 16) + i] + 99) % 256
                     ELSE 16 - (Len(in) % 16)]

EnvelopeOutcomes ==
    {"", "cannot generate random salt/iv", "PBKDF2 failed", "cannot alloc cipher ctx",
     "cipher init failed", "encrypt update failed", "encrypt final failed"}

\* a variant of the envelope writer that leaves out the final block
EnvelopeNoFinal(in, pw, salt, iv, o) ==
    IF pw = NoPassword \/ pw = <<>> \/ o # "" THEN NoBytes
    ELSE <<82, 90, 65, 69, 48, 48, 48, 49>> \o salt \o iv \o CbcUpdate(in)

\* the returned array, NoBytes for NULL
rspamd_archives_encrypt_aes256_cbc(in, pw, salt, iv, o) ==
    IF pw = NoPassword \/ pw = <<>> \/ o # "" THEN NoBytes
    ELSE <<82, 90, 65, 69, 48, 48, 48, 49>> \o salt \o iv \o CbcUpdate(in) \o CbcFinal(in)

Envelope ==
    /\ pc = "envelope"
    /\ \E o \in EnvelopeOutcomes, salt \in {Salt16, Rep(0, 16)}, iv \in {Rep(1, 16)} :
          /\ result' = rspamd_archives_encrypt_aes256_cbc(input, password, salt, iv, o)
          /\ loc' = [loc EXCEPT !.msg = IF password = NoPassword \/ password = <<>>
                                         THEN "empty password" ELSE o]
          \* key[32]: not derived, left as PBKDF2 left it, or
          \* rspamd_explicit_memzero(key, sizeof(key))
          /\ crypto' = [crypto EXCEPT !.dk =
                IF password = NoPassword \/ password = <<>>
                   \/ o = "cannot generate random salt/iv" THEN "none"
                ELSE IF o = "PBKDF2 failed" THEN "left"
                ELSE "wiped"]
    /\ pc' = "enveloped"
    /\ UNCHANGED <<input, tail, uninit, cdname, ext, part, arch, p, oob>>
    /\ UNCHANGED <<files, password, zip, cd, wi, winfo>>

----------------------------------------------------------------------------
(* rspamd_archives_process: the dispatcher, for one part *)

NoExt == Bad

\* g_ascii_tolower on every byte
AsciiLower(s) == [i \in 1..Len(s) |-> IF s[i] >= 65 /\ s[i] <= 90 THEN s[i] + 32 ELSE s[i]]

\* g_ascii_strcasecmp(ext, name) == 0
ExtIs(e, name) == e # NoExt /\ AsciiLower(e) = name

ExtZip == <<122, 105, 112>>
ExtRar == <<114, 97, 114>>
Ext7z  == <<55, 122>>
ExtGz  == <<103, 122>>

Dispatch ==
    /\ pc = "start"
    /\ pc' = IF Len(input) > 0 /\ part.part_type # "archive"
             THEN IF ExtIs(ext, ExtZip) THEN "zip"
                  ELSE IF ExtIs(ext, ExtRar) THEN "rar"
                  ELSE IF ExtIs(ext, Ext7z) THEN "7zip"
                  ELSE IF ExtIs(ext, ExtGz) THEN "gzip"
                  ELSE "post"
             ELSE "done"
    /\ UNCHANGED readerVars
    /\ UNCHANGED writerVars

\* a variant of PostCheck that leaves the content type as it is
PostCheckSilent ==
    /\ pc = "post"
    /\ pc' = "done"
    /\ UNCHANGED readerVars
    /\ UNCHANGED writerVars

\* the content-type check that follows the reader
PostCheck ==
    /\ pc = "post"
    /\ pc' = "done"
    /\ part' = IF /\ part.ct # NoCt /\ "text" \in part.ct
                  /\ part.part_type = "archive" /\ part.arch # NoArch
                  /\ "missing" \notin part.ct
               THEN [part EXCEPT !.ct = @ \cup {"broken"}]
               ELSE part
    /\ UNCHANGED <<input, tail, uninit, cdname, ext, arch, p, loc, oob>>
    /\ UNCHANGED writerVars

----------------------------------------------------------------------------
(* Inputs *)

\* file names met in archives: plain, with a space, with a C0 control, with
\* U+200B (E2 80 8B), DEL, a byte that is not UTF-8, U+00E9 (C3 A9)
NameA       == <<97>>
NameAB      == <<97, 46, 98>>
NameSpace   == <<97, 32, 98>>
NameCtrl    == <<97, 1>>
NameZw      == <<97, 226, 128, 139>>
NameDel     == <<127>>
NameRaw     == <<255, 97>>
NameAcc     == <<195, 169>>
ReaderNames == {NameA, NameSpace, NameCtrl, NameZw, NameDel, NameRaw}

\* every prefix of a buffer
Prefixes(s) == {SubSeq(s, 1, n) : n \in 0..Len(s)}

GzipInput(flg, extra, name) ==
    <<31, 139, 8, flg, 0, 0, 0, 0, 0, 3>>
    \o (IF BitSet(flg, 1) THEN <<0, 0>> ELSE <<>>)
    \o (IF BitSet(flg, 2) THEN LE16(Len(extra)) \o extra ELSE <<>>)
    \o (IF BitSet(flg, 3) THEN name \o <<0>> ELSE <<>>)
    \o <<75, 0>>

GzipInputs ==
    UNION {Prefixes(GzipInput(flg, <<1, 2>>, n)) :
              flg \in {0, 8, 10, 12, 32, 40}, n \in ReaderNames \cup {<<>>}}
    \cup {<<80, 75>> \o Rep(0, 10), GzipInput(4, <<>>, <<>>) \o <<9, 9>>}

CdNames == {<<>>, <<102, 46, 103, 122>>, <<100, 47, 102, 46, 103, 122>>,
            <<102, 46, 101, 46, 103, 122>>, <<102, 103, 122>>, <<102, 46>>}

\* RAR v4 blocks: the main header and a file header with its data
Rar4MainBlock(flags) == <<0, 0, 115>> \o LE16(flags) \o LE16(13) \o Rep(0, 6)

Rar4FileBlock(flags, name, data, size) ==
    <<0, 0, 116>> \o LE16(flags) \o LE16(size)
    \o (IF BitSet(flags, 15) THEN LE32(Len(data)) ELSE <<>>)
    \o LE32(5) \o Rep(0, 11) \o LE16(Len(name)) \o Rep(0, 4)
    \o (IF BitSet(flags, 8) THEN LE32(0) \o LE32(0) ELSE <<>>)
    \o name
    \o (IF BitSet(flags, 15) THEN data ELSE <<>>)

\* a file block with flags 0x8000 and 0x100: ADD_SIZE add, HIGH_PACK_SIZE
\* hp, and the data after the name
Rar4FileBlockPacked(name, add, hp, data) ==
    <<0, 0, 116>> \o LE16(33024) \o LE16(40 + Len(name)) \o LE32(add)
    \o LE32(5) \o Rep(0, 11) \o LE16(Len(name)) \o Rep(0, 4)
    \o LE32(hp) \o LE32(0) \o name \o data

\* the HEAD_SIZE of a well-formed file block
Rar4FileSize(flags, name) ==
    28 + Len(name) + (IF BitSet(flags, 15) THEN 4 ELSE 0)
       + (IF BitSet(flags, 8) THEN 8 ELSE 0)

Rar4Blocks ==
    {Rar4MainBlock(0), Rar4MainBlock(128)}
    \cup {Rar4FileBlock(fl, n, <<7, 7>>, Rar4FileSize(fl, n)) :
              fl \in {0, 4, 512, 32768, 256}, n \in {NameA, NameCtrl}}
    \cup {Rar4FileBlock(512, <<97, 0, 1, 98>>, <<>>, 32),
          Rar4FileBlock(0, NameZw, <<>>, 0),
          Rar4FileBlock(0, NameSpace, <<>>, 200),
          Rar4FileBlock(0, <<>>, <<>>, 28)}

\* every sequence of 1..n blocks
RECURSIVE BlockSeqs(_, _)
BlockSeqs(blocks, n) ==
    IF n = 0 THEN {<<>>}
    ELSE LET shorter == BlockSeqs(blocks, n - 1)
         IN shorter \cup {s \o b : s \in shorter, b \in blocks}

MaxBlocks == 2

Rar4Inputs ==
    {RarV4Magic \o s : s \in BlockSeqs(Rar4Blocks, MaxBlocks)}
    \cup Prefixes(RarV4Magic \o Rar4MainBlock(0)
                  \o Rar4FileBlock(0, NameAB, <<>>, 31) \o Rar4MainBlock(0))
    \cup {RarV4Magic \o Rar4FileBlockPacked(NameA, 1, 2, d) \o Rar4MainBlock(128) :
              d \in {<<7, 7, 7>>, <<7>>}}
    \cup {RarV4Magic \o Rar4FileBlockPacked(NameA, 1, 2, <<7, 7>>)}

\* RAR v5 headers: crc32, size, then the counted part
Rar5Block(size, body) == <<0, 0, 0, 0, size>> \o body

Rar5MainBody == <<1, 0, 0>>

\* type 2, header flags, extra size, data size, file flags, unpacked size,
\* attributes, compression, host OS, name length, name, extra area, data
Rar5FileBody(hfl, xsz, data, ffl, name, xarea) ==
    <<2, hfl>>
    \o (IF BitSet(hfl, 0) THEN <<xsz>> ELSE <<>>)
    \o (IF BitSet(hfl, 1) THEN <<Len(data)>> ELSE <<>>)
    \o <<ffl, 5, 0>>
    \o (IF BitSet(ffl, 1) THEN <<0, 0, 0, 0>> ELSE <<>>)
    \o (IF BitSet(ffl, 2) THEN <<0, 0, 0, 0>> ELSE <<>>)
    \o (IF BitSet(ffl, 0) THEN <<>> ELSE <<0, 0, Len(name)>> \o name)
    \o xarea

Rar5FileBlock(hfl, xsz, data, ffl, name, xarea) ==
    Rar5Block(Len(Rar5FileBody(hfl, xsz, data, ffl, name, xarea)),
              Rar5FileBody(hfl, xsz, data, ffl, name, xarea))
    \o (IF BitSet(hfl, 1) THEN data ELSE <<>>)

Rar5Blocks ==
    {Rar5FileBlock(0, 0, <<>>, ffl, n, <<>>) : ffl \in {0, 1, 6}, n \in {NameA, NameZw}}
    \cup {Rar5FileBlock(3, Len(x), <<9, 9, 9>>, 0, NameA, x) :
              x \in {<<2, 1>>, <<2, 2, 2, 1>>, <<0, 2>>, <<2, 2, 3, 128>>, <<200, 5>>}}
    \cup {Rar5FileBlock(1, 3, <<>>, 0, NameAB, <<2, 1, 0>>),
          Rar5Block(0, <<2, 0, 0, 5, 0, 0, 0, 1, 97>>),
          Rar5Block(90, <<2, 0, 0, 5, 0, 0, 0, 1, 97>>),
          Rar5Block(9, <<2, 0, 0, 5, 0, 0, 0, 0, 97>>),
          Rar5Block(3, <<3, 0, 0>>),
          Rar5Block(9, <<2, 0, 128, 128, 128, 128, 128, 128, 128>>)}

Rar5Inputs ==
    {RarV5Magic \o Rar5Block(3, Rar5MainBody) \o s : s \in BlockSeqs(Rar5Blocks, MaxBlocks)}
    \cup Prefixes(RarV5Magic \o Rar5Block(3, Rar5MainBody)
                  \o Rar5FileBlock(3, 4, <<9>>, 6, NameA, <<2, 2, 2, 1>>)
                  \o Rar5Block(3, <<3, 0, 0>>))
    \cup {RarV5Magic \o Rar5Block(4, <<4, 0, 0, 0>>) \o <<1, 2, 3>>,
          RarV5Magic \o Rar5Block(3, <<4, 3, 1, 1>>),
          RarV5Magic \o Rar5Block(3, <<2, 0, 0>>) \o <<1, 2, 3>>,
          RarV5Magic \o Rar5Block(0, Rar5MainBody),
          RarV5Magic \o Rep(0, 4) \o Rep(129, 9) \o <<4, 0>>,
          RarV5Magic \o Rep(0, 4) \o Rep(129, 8) \o <<1, 4, 0>>,
          RarV5Magic \o Rar5Block(3, Rar5MainBody)
              \o Rar5FileBlock(1, 2, <<>>, 0, NameA, <<2, 1>>),
          <<82, 97, 114, 33, 26, 7, 2, 0, 0, 0>>}

\* ZIP: a central directory record, the end-of-central-directory record
\* with its cd_size and cd_offset fields given as bytes, an archive
ZipCdEntry(flags, name, extra, comment) ==
    <<80, 75, 1, 2>> \o Rep(0, 4) \o LE16(flags) \o Rep(0, 10) \o LE32(3) \o LE32(5)
    \o LE16(Len(name)) \o LE16(Len(extra)) \o LE16(Len(comment)) \o Rep(0, 12)
    \o name \o extra \o comment

ZipEocd(n, size, offset) ==
    <<80, 75, 5, 6>> \o Rep(0, 4) \o LE16(n) \o LE16(n) \o size \o offset \o LE16(0)

ZipData == <<1, 2, 3, 4, 5>>

ZipArchive(records, more) ==
    ZipData \o records \o ZipEocd(1, LE32(Len(records) + more), LE32(Len(ZipData)))

ZipRecords ==
    {ZipCdEntry(fl, n, <<>>, <<>>) : fl \in {0, 1, 64}, n \in {NameA, NameCtrl}}
    \cup {ZipCdEntry(0, n, <<>>, <<>>) : n \in ReaderNames \cup {NameAcc}}
    \cup {ZipCdEntry(0, NameA, x, <<99>>) :
             x \in {<<23, 0, 0, 0>>, <<23, 0, 1, 0, 0>>, <<1, 0, 0, 0, 23, 0, 1, 0, 9>>}}
    \cup {<<80, 75, 1, 3>> \o Rep(0, 42),
          <<80, 75, 1, 2>> \o Rep(0, 24) \o LE16(300) \o Rep(0, 16) \o NameA}

ZipInputs ==
    {ZipArchive(s, 0) : s \in BlockSeqs(ZipRecords, MaxBlocks)}
    \cup {ZipArchive(ZipCdEntry(0, NameA, <<>>, <<>>), d) : d \in {1, 30}}
    \cup {ZipData \o ZipCdEntry(0, NameA, <<>>, <<>>) \o ZipEocd(1, sz, <<255, 255, 255, 255>>) :
             sz \in {LE32(0), LE32(1), LE32(6)}}
    \cup {SubSeq(ZipArchive(ZipCdEntry(0, NameAB, <<>>, <<>>), 0), 1, n) : n \in {0, 4, 26, 60, 72}}
    \cup {ZipArchive(ZipCdEntry(0, NameA, <<>>, <<>>), 0) \o Rep(7, 3),
          ZipData \o ZipCdEntry(0, NameA, <<>>, <<>>)
              \o ZipEocd(1, <<255, 255, 255, 255>>, LE32(Len(ZipData))),
          Tail(ZipCdEntry(0, NameA, <<>>, <<>>)) \o ZipEocd(1, LE32(6), <<255, 255, 255, 255>>)}

\* 7-Zip: the signature header, then the bytes before the header and the
\* header itself
SzArchive(gap, body) ==
    <<55, 122, 188, 175, 39, 28, 0, 4>> \o Rep(0, 4) \o LE32(Len(gap)) \o Rep(0, 4)
    \o LE32(Len(body)) \o Rep(0, 4) \o Rep(0, 4) \o gap \o body

RECURSIVE SzNameBytes(_)
\* a name as 16-bit units, low byte first, with its terminator
SzNameBytes(units) ==
    IF units = <<>> THEN <<0, 0>> ELSE LE16(Head(units)) \o SzNameBytes(Tail(units))

\* kFilesInfo for files with the given names
SzFilesInfo(nfiles, props, names) ==
    <<5>> \o nfiles \o props \o <<17, Len(names) + 1, 0>> \o names \o <<0>>

SzNameUnits ==
    {<<97>>, <<97, 1>>, <<97, 8203>>, <<55296, 97>>, <<55357, 56832>>, <<233>>}

\* folders: one plain coder; one AES coder; a complex coder with
\* attributes, two input streams and so two packed streams
SzFolderChoices ==
    {<<1, 1, 0>>, <<1, 4, 6, 241, 7, 1>>, <<1, 49, 3, 2, 1, 2, 7, 7, 0, 1>>,
     <<2, 1, 0, 33, 0, 1, 9>>}

SzStreams(folder) ==
    <<4, 6, 0, 1, 9, 5, 10, 1, 1, 2, 3, 4, 0>>
    \o <<7, 11, 1, 0>> \o folder \o <<12, 5, 10, 0, 128, 1, 2, 3, 4, 0>>
    \o <<8, 13, 2, 9, 3, 4, 10, 1, 0>>
    \o <<0>>

SzBodies ==
    {<<1>> \o SzFilesInfo(<<1>>, <<>>, SzNameBytes(u)) \o e : u \in SzNameUnits, e \in {<<0>>, <<>>, <<66>>}}
    \cup {<<1>> \o SzFilesInfo(<<2>>, <<>>, SzNameBytes(<<55296, 97>>) \o SzNameBytes(<<98>>)) \o <<0>>}
    \cup {<<1>> \o SzStreams(f) \o SzFilesInfo(<<2>>, <<14, 1, 0>>,
                                               SzNameBytes(<<97>>) \o SzNameBytes(<<98>>)) \o <<0>> :
             f \in SzFolderChoices}
    \cup {<<1>> \o SzFilesInfo(n, <<>>, SzNameBytes(<<97>>)) \o <<0>> :
             n \in {<<2>>, <<129, 0>>, <<254, 1>>, <<255, 1, 0, 0, 0, 0, 0, 0, 0>>, <<193, 0, 0>>}}
    \cup {<<1, 5, 1, 17, 3, 1, 0, 0>>, <<1, 5, 1, 17, 3, 0, 0, 0, 0>>, <<1, 5, 1, 17, 3, 0, 97>>,
          <<1, 5, 1, 22, 0, 0>>, <<1, 5, 1, 21, 9, 0>>,
          <<23>>, <<1, 23, 0>>, <<0>>, <<66>>, <<1>>,
          <<2, 1, 2, 9, 9, 0, 0>>, <<2, 1, 2, 9, 9>>, <<2, 1, 0>>, <<2>> ,
          <<3, 0, 0>>,
          <<4, 7, 11, 1, 0, 1, 1, 0, 11, 3, 1, 0, 12, 5, 0, 0, 0>>,
          <<4, 7, 11, 2, 1, 0, 12, 0, 0, 0>>,
          <<4, 7, 11, 1, 0, 1, 15, 6, 241>>,
          <<4, 7, 11, 1>>,
          <<4, 7, 10, 0>>,
          <<4, 6, 0, 9, 10, 0, 1>>,
          <<4, 6, 0, 2, 10, 1, 1, 2, 3, 4, 5>>,
          <<4, 8, 10>>}

SzInputs ==
    {SzArchive(<<>>, b) : b \in SzBodies}
    \cup {SzArchive(<<9, 9>>, <<1>> \o SzFilesInfo(<<1>>, <<>>, SzNameBytes(<<97>>)) \o <<0>>)}
    \cup Prefixes(SzArchive(<<>>, <<1>> \o SzStreams(<<1, 1, 0>>)))
    \cup {SzArchive(<<>>, <<0>>) \o <<1>>,
          <<55, 122, 188, 175, 39, 29>> \o Rep(0, 30),
          SubSeq(SzArchive(<<9, 9, 9, 9, 9>>, <<0>>), 1, 35)}

\* what the stack and the heap hold where the code reads without writing
UninitChoices == {Rep(0, 8), Rep(255, 8)}

\* the writer's entries: names that pass rspamd_zip_validate_name and names
\* that do not (absent, empty, "/a", "\a", "a..b", "a:b"), data that deflate
\* may shrink or not, a mode
ZipSpec(name, data, mode) == [name |-> name, data |-> data, mode |-> mode]

WriterEntries ==
    {ZipSpec(n, <<1>>, 0) : n \in {NameA, NameSpace, <<195, 169>>, <<98>>, NameRaw}}
    \cup {ZipSpec(NameA, d, 0) : d \in {<<>>, <<5, 5, 5, 5>>}}
    \cup {ZipSpec(<<99>>, <<1, 2>>, 493)}
    \cup {ZipSpec(n, <<1>>, 0) :
             n \in {NoName, <<>>, <<47, 97>>, <<92, 97>>, <<97, 46, 46, 98>>, <<97, 58, 98>>}}

MaxFiles == 2

WriterInputs == (BlockSeqs({<<e>> : e \in WriterEntries}, MaxFiles) \ {<<>>}) \cup {<<>>, NoFiles}

Passwords == {NoPassword, <<>>, <<112, 119>>}

MaxEnvLen == 33

EnvelopeInputs == {[i \in 1..n |-> (7 * i) % 256] : n \in 0..MaxEnvLen}

TailChoices == {<<>>, <<6, 241, 7, 1, 1, 1, 1, 1>>}

IdleLoc == [msg |-> "", start_section |-> 0, flags |-> 0,
            sz |-> W(0), comp_sz |-> W(0), uncomp_sz |-> W(0), extra_sz |-> W(0),
            has_extra |-> FALSE, fname_len |-> 0, ex |-> 0,
            eocd |-> 0, cd_end |-> W(0), wild |-> FALSE, malformed |-> FALSE]
IdleWriter ==
    /\ files = <<>>
    /\ password = NoPassword
    /\ zip = NoBytes
    /\ cd = NoBytes
    /\ wi = 0
    /\ winfo = <<>>
    /\ result = NoBytes
    /\ crypto = [dk |-> "none"]

FreshPart(ct) == [part_type |-> "undefined", arch |-> NoArch, ct |-> ct]

InitGzip ==
    /\ input \in GzipInputs
    /\ ext \in {ExtGz, <<71, 90>>}
    /\ cdname \in CdNames
    /\ tail = <<>>
    /\ uninit = Rep(0, 8)
    /\ part = FreshPart({})

InitRar ==
    /\ input \in Rar4Inputs \cup Rar5Inputs
    /\ ext = ExtRar
    /\ cdname = <<>>
    /\ tail \in TailChoices
    /\ uninit = Rep(0, 8)
    /\ part = FreshPart({})

InitZip ==
    /\ input \in ZipInputs
    /\ ext = ExtZip
    /\ cdname = <<>>
    /\ tail = <<>>
    /\ uninit = Rep(0, 8)
    /\ part = FreshPart({})

InitSz ==
    /\ input \in SzInputs
    /\ ext = Ext7z
    /\ cdname = <<>>
    /\ tail \in TailChoices
    /\ uninit \in UninitChoices
    /\ part = FreshPart({})

\* the flags of part->ct as the MIME parser leaves them: no content type,
\* a type that is not text, a declared text type, the text type assumed
\* when the header is missing
CtChoices == {NoCt, {}, {"text"}, {"text", "missing"}}

\* detected_ext: none, the four names in either case, another name
ExtChoices ==
    {NoExt, ExtZip, <<90, 73, 80>>, ExtRar, <<82, 97, 114>>, Ext7z, <<55, 90>>,
     ExtGz, <<116, 120, 116>>}

\* for each reader an input it attaches and one it rejects; an empty part
DispatchInputs ==
    {<<>>,
     ZipArchive(ZipCdEntry(0, NameA, <<>>, <<>>), 0),
     ZipArchive(ZipCdEntry(0, NameA, <<>>, <<>>), 30),
     RarV4Magic \o Rar4MainBlock(0) \o Rar4FileBlock(0, NameA, <<7, 7>>, Rar4FileSize(0, NameA)),
     RarV5Magic \o Rar5Block(0, Rar5MainBody),
     SzArchive(<<>>, <<1>> \o SzFilesInfo(<<1>>, <<>>, SzNameBytes(<<97>>)) \o <<0>>),
     <<55, 122, 188, 175, 39, 29>> \o Rep(0, 30),
     GzipInput(8, <<>>, NameA),
     <<80, 75>> \o Rep(0, 10)}

\* a part that an earlier pass has made an archive
ArchivePart(ct) ==
    [part_type |-> "archive", arch |-> [NewArch("zip") EXCEPT !.size = 7], ct |-> ct]

\* the parts of a message as rspamd_archives_process may meet them
InitDispatch ==
    /\ input \in DispatchInputs
    /\ ext \in ExtChoices
    /\ cdname = <<>>
    /\ tail = <<>>
    /\ uninit = Rep(0, 8)
    /\ part \in {FreshPart(c) : c \in CtChoices} \cup {ArchivePart(c) : c \in CtChoices}

\* nothing has run yet
IdleReader ==
    /\ arch = NoArch
    /\ p = 0
    /\ loc = IdleLoc
    /\ oob = FALSE

Init ==
    /\ (InitGzip \/ InitRar \/ InitZip \/ InitSz \/ InitDispatch)
    /\ pc = "start"
    /\ IdleReader
    /\ IdleWriter

\* a call of rspamd_archives_zip_write; its result is then read as a part
InitWrite ==
    /\ files \in WriterInputs
    /\ password \in Passwords
    /\ zip = NoBytes
    /\ cd = NoBytes
    /\ wi = 0
    /\ winfo = <<>>
    /\ result = NoBytes
    /\ crypto = [dk |-> "none"]
    /\ input = <<>>
    /\ ext = ExtZip
    /\ cdname = <<>>
    /\ tail = <<>>
    /\ uninit = Rep(0, 8)
    /\ part = FreshPart({})
    /\ pc = "zip_write"
    /\ IdleReader

\* a call of rspamd_archives_encrypt_aes256_cbc
InitEnvelope ==
    /\ input \in EnvelopeInputs
    /\ password \in Passwords
    /\ files = <<>>
    /\ zip = NoBytes
    /\ cd = NoBytes
    /\ wi = 0
    /\ winfo = <<>>
    /\ result = NoBytes
    /\ crypto = [dk |-> "none"]
    /\ ext = NoExt
    /\ cdname = <<>>
    /\ tail = <<>>
    /\ uninit = Rep(0, 8)
    /\ part = FreshPart({})
    /\ pc = "envelope"
    /\ IdleReader

Next ==
    \/ Dispatch
    \/ GzipProcess
    \/ RarStart
    \/ Rar4Header
    \/ Rar4File
    \/ Rar4Skip
    \/ Rar4End
    \/ Rar5Main
    \/ Rar5Header
    \/ Rar5File
    \/ Rar5Extra
    \/ Rar5ExtraEnd
    \/ Rar5Skip
    \/ Rar5End
    \/ ZipStart
    \/ ZipCdRecord
    \/ ZipEnd
    \/ SzStart
    \/ SzNextSection
    \/ SzEncodedHeader
    \/ SzEnd
    \/ PostCheck

Spec == Init /\ [][Next]_vars

\* the RAR v4 reader alone, called through the dispatcher
InitRar4 ==
    /\ input \in Rar4Inputs
    /\ ext = ExtRar
    /\ cdname = <<>>
    /\ tail \in TailChoices
    /\ uninit = Rep(0, 8)
    /\ part = FreshPart({})
    /\ pc = "start"
    /\ IdleReader
    /\ IdleWriter

NextRar4 ==
    \/ Dispatch
    \/ RarStart
    \/ Rar4Header
    \/ Rar4File
    \/ Rar4Skip
    \/ Rar4End
    \/ PostCheck

\* the reader is a sequential function that runs to its return: a step that
\* can be taken is taken
SpecRar4 == InitRar4 /\ [][NextRar4]_vars /\ WF_vars(NextRar4)

NextWrite ==
    \/ ZipWriteStart
    \/ ZipWriteEntry
    \/ ZipWriteFinish
    \/ ReadBack
    \/ Dispatch
    \/ ZipStart
    \/ ZipCdRecord
    \/ ZipEnd
    \/ PostCheck

SpecWrite == InitWrite /\ [][NextWrite]_vars

NextEnvelope == Envelope

SpecEnvelope == InitEnvelope /\ [][NextEnvelope]_vars

----------------------------------------------------------------------------
(* Properties *)

\* C1: when the ZIP, RAR v4, RAR v5 or gzip reader stops on a malformed or
\* truncated record, the part is as it was before the call (type not
\* archive, no archive attached), also when files had been collected
C1_RejectLeavesPart ==
    (/\ pc \in {"post", "done"}
     /\ loc.msg \notin {"", "attached"}
     /\ (ExtIs(ext, ExtZip) \/ ExtIs(ext, ExtRar) \/ ExtIs(ext, ExtGz)))
        => part \in {FreshPart(c) : c \in CtChoices}

\* a reader has stopped on a bad record after it had collected a file
C1_Witness ==
    /\ pc = "post"
    /\ loc.msg \in {"zip archive is invalid (bad cd record)",
                     "zip archive is invalid (too large cd record)",
                     "rar archive is invalid (bad vint)"}
    /\ Len(arch.files) >= 1
    /\ part = FreshPart({})

\* C2: when a section of a 7-Zip archive is malformed (unknown tag, bad
\* vint, truncated skip, too many folders, libarchive cannot open the
\* buffer), no archive is attached and the part type stays as it was
C2_MalformedSectionNotAttached ==
    (pc \in {"post", "done"} /\ ExtIs(ext, Ext7z) /\ loc.malformed)
        => (part.part_type # "archive" /\ part.arch = NoArch)

\* C3: every reader reads input bytes only at offsets in [0, len)
C3_ReadsInsideBuffer == ~oob

\* C4: every iteration of the RAR v5 extra-area loop stops the loop or
\* moves its cursor strictly forward
C4_ExtraLoopAdvances ==
    (pc = "rar5_extra" /\ loc.ex < p + WNat(loc.extra_sz)) =>
        LET v1 == rspamd_archive_rar_read_vint(input, tail, loc.ex, WNat(loc.extra_sz))
            v2 == rspamd_archive_rar_read_vint(input, tail, loc.ex + v1.r,
                                               WNat(loc.extra_sz) - v1.r)
        IN \/ v1.r = -1
           \/ v2.r = -1
           \/ v2.val = W(1)
           \/ Rar5ExtraAdvance(loc.ex, v1.val, p + WNat(loc.extra_sz)) > loc.ex

\* C5: an archive written without a password from entries with valid,
\* unique names is read back as a ZIP archive with the same names in the
\* same order and the uncompressed sizes of the data
C5_RoundTrip ==
    (/\ pc = "done"
     /\ password = NoPassword
     /\ \A i, j \in 1..Len(files) : i # j => files[i].name # files[j].name)
        => /\ part.part_type = "archive"
           /\ part.arch.type = "zip"
           /\ Len(part.arch.files) = Len(files)
           /\ \A i \in 1..Len(part.arch.files) :
                 /\ part.arch.files[i].fname = files[i].name
                 /\ part.arch.files[i].uncompressed_size = W(Len(files[i].data))

\* C6: when some entry has a name that is absent or empty, begins with '/'
\* or '\', contains ".." or contains ':', the writer returns no array, and
\* the arrays holding the entries written before it are freed
C6_BadNameNoOutput ==
    (/\ files # NoFiles
     /\ \E i \in 1..Len(files) :
           \/ files[i].name = NoName
           \/ files[i].name = <<>>
           \/ files[i].name[1] \in {47, 92}
           \/ HasSub(files[i].name, <<46, 46>>)
           \/ \E k \in 1..Len(files[i].name) : files[i].name[k] = 58)
        => /\ result = NoBytes
           /\ pc \in {"zip_write", "zip_write_entry", "write_failed"}
           /\ (loc.msg = "invalid zip entry name" => zip = NoBytes /\ cd = NoBytes)

\* the writer has failed on the name of its second entry
C6_Witness ==
    /\ pc = "write_failed"
    /\ loc.msg = "invalid zip entry name"
    /\ wi = 1
    /\ result = NoBytes

\* C7: the local header of every entry written with a password has
\* version needed 51, bit 0 of the flags, method 99, crc 0, and after the
\* name the extra field 0x9901 of size 7 with vendor version 2, 'AE' and
\* strength 3, also after the patches
C7_AesLocalHeader ==
    zip # NoBytes =>
        \A i \in 1..Len(winfo) : winfo[i].aes =>
            /\ U16At(zip, <<>>, winfo[i].lfh_off + 4) = 51
            /\ BitSet(U16At(zip, <<>>, winfo[i].lfh_off + 6), 0)
            /\ U16At(zip, <<>>, winfo[i].lfh_off + 8) = 99
            /\ BytesAt(zip, <<>>, winfo[i].lfh_off + 14, 4) = <<0, 0, 0, 0>>
            /\ U16At(zip, <<>>, winfo[i].lfh_off + 26) = Len(files[i].name)
            /\ BytesAt(zip, <<>>, winfo[i].lfh_off + 30 + Len(files[i].name), 9)
                  = <<1, 153, 7, 0, 2, 0, 65, 69, 3>>

\* an archive of two encrypted entries, one stored and one deflated
C7_Witness ==
    /\ pc = "written"
    /\ Len(winfo) = 2
    /\ winfo[1].aes /\ winfo[2].aes
    /\ winfo[1].stored # winfo[2].stored

\* C8: with a password the envelope is 'RZAE0001', a salt of 16 bytes, an
\* IV of 16 bytes and the ciphertext, 40 + ceil((len + 1) / 16) * 16 bytes
\* in all; without a password, or with an empty one, there is no output
C8_EnvelopeFraming ==
    pc = "enveloped" =>
        IF password = NoPassword \/ password = <<>> THEN result = NoBytes
        ELSE (result # NoBytes) =>
                /\ SubSeq(result, 1, 8) = <<82, 90, 65, 69, 48, 48, 48, 49>>
                /\ SubSeq(result, 9, 24) \in {Salt16, Rep(0, 16)}
                /\ SubSeq(result, 25, 40) = Rep(1, 16)
                /\ Len(result) = 40 + ((Len(input) + 1 + 15) \div 16) * 16

\* an envelope of an input whose length is a multiple of the block size
C8_Witness ==
    /\ pc = "enveloped"
    /\ result # NoBytes
    /\ Len(input) = 32

\* C9: every file of an attached archive whose name has a C0 control
\* character or U+200B carries the obfuscated flag
C9_ControlNamesFlagged ==
    part.part_type = "archive" =>
        \A i \in 1..Len(part.arch.files) :
            (\/ \E k \in 1..Len(part.arch.files[i].fname) : part.arch.files[i].fname[k] <= 31
             \/ HasSub(part.arch.files[i].fname, <<226, 128, 139>>))
                => "obfuscated" \in part.arch.files[i].flags

\* C10: an attached archive with an obfuscated file has the flag
\* has_obfuscated_files
C10_ObfuscatedFlagsArchive ==
    part.part_type = "archive" =>
        ((\E i \in 1..Len(part.arch.files) : "obfuscated" \in part.arch.files[i].flags)
            => "has_obfuscated_files" \in part.arch.flags)

\* an attached archive of two files, the second of them obfuscated
C10_Witness ==
    /\ part.part_type = "archive"
    /\ Len(part.arch.files) = 2
    /\ "obfuscated" \notin part.arch.files[1].flags
    /\ "obfuscated" \in part.arch.files[2].flags

\* C11: every entry of the file list of an attached archive has a name; an
\* entry whose name could not be produced is not in the list
C11_FilesHaveNames ==
    part.part_type = "archive" =>
        \A i \in 1..Len(part.arch.files) : part.arch.files[i].fname # Bad

\* a 7-Zip archive of two names, the first of which (an unpaired surrogate)
\* has no UTF-8 form, is attached with the second name only
C11_Witness ==
    /\ part.part_type = "archive"
    /\ part.arch.type = "7zip"
    /\ HasSub(input, <<0, 216, 97, 0, 0, 0, 98, 0, 0, 0>>)
    /\ Len(part.arch.files) = 1
    /\ part.arch.files[1].fname = <<98>>

\* C12: an archive attached by the ZIP reader never has the encrypted flag
\* at archive level, whatever its entries carry
C12_ZipArchiveNotEncrypted ==
    (part.part_type = "archive" /\ part.arch.type = "zip")
        => "encrypted" \notin part.arch.flags

\* an attached ZIP archive all of whose entries, two or more, are encrypted
C12_Witness ==
    /\ part.part_type = "archive"
    /\ part.arch.type = "zip"
    /\ Len(part.arch.files) >= 2
    /\ \A i \in 1..Len(part.arch.files) : "encrypted" \in part.arch.files[i].flags
    /\ "encrypted" \notin part.arch.flags

C14_GzipNoNameAttached ==
    (/\ pc \in {"post", "done"}
     /\ ExtIs(ext, ExtGz)
     /\ Len(input) > 10
     /\ Take(input, 2) = <<31, 139>>
     /\ ~BitSet(input[4], 3)
     /\ \A k \in 1..Len(cdname) : cdname[k] # 46)
        => /\ part.part_type = "archive"
           /\ part.arch.type = "gzip"
           /\ part.arch.files = <<>>
           /\ ("encrypted" \in part.arch.flags) = BitSet(input[4], 5)

\* C15: with the FNAME bit clear and a container file name that has a dot
\* after its last '/', the single entry is that name without its directory
\* and without its last '.ext'; the name after the directory is kept whole
\* only when the dot is its last character
C15_GzipFallbackName ==
    (/\ pc \in {"post", "done"}
     /\ ExtIs(ext, ExtGz)
     /\ Len(input) > 10
     /\ Take(input, 2) = <<31, 139>>
     /\ ~BitSet(input[4], 3)
     /\ LastIndex(cdname, 46) > LastIndex(cdname, 47))
        => LET base == Drop(cdname, LastIndex(cdname, 47))
           IN /\ part.part_type = "archive"
              /\ Len(part.arch.files) = 1
              /\ part.arch.files[1].fname =
                    IF LastIndex(base, 46) = Len(base) THEN base
                    ELSE Take(base, LastIndex(base, 46) - 1)

\* C16: with the FNAME bit set, the name given to the normaliser is the run
\* of bytes from the end of the fixed header and the FEXTRA block up to the
\* first NUL at or after it, and an input without such a NUL is rejected
C16_GzipNameRun ==
    (/\ pc \in {"post", "done"}
     /\ ExtIs(ext, ExtGz)
     /\ Len(input) > 10
     /\ Take(input, 2) = <<31, 139>>
     /\ BitSet(input[4], 3)
     /\ GzipFnameStart(input) # -1)
        => LET s  == GzipFnameStart(input)
               zs == {q \in s..(Len(input) - 1) : input[q + 1] = 0}
               e  == CHOOSE q \in zs : \A r \in zs : q <= r
           IN IF zs = {} THEN part.part_type # "archive"
              ELSE /\ part.part_type = "archive"
                   /\ \E g \in CharsetGuesses(BytesAt(input, <<>>, s, e - s)) :
                         part.arch.files =
                            <<rspamd_archive_file_try_utf(NewFile, BytesAt(input, <<>>, s, e - s), g)>>

\* C17: when the ZIP writer has failed, the output array and the central
\* directory array are freed, and whenever a writer has returned after the
\* key derivation was tried, the derived key has been zeroed
C17_WriterCleanup ==
    /\ (pc = "write_failed" => (zip = NoBytes /\ cd = NoBytes))
    /\ (pc \in {"write_failed", "written", "enveloped"} => crypto.dk \in {"none", "wiped"})

\* C18: wherever in a RAR input that was read the vint decoder succeeds, the byte it
\* stopped on has its high bit clear, the bytes before it have it set, and
\* the result is the number of bytes up to that byte and the sum of their
\* low seven bits shifted by seven per byte
C18_RarVintTerminated ==
    (pc \in {"post", "done"} /\ ExtIs(ext, ExtRar)) =>
        \A q \in 0..(Len(input) - 1) :
            \E v \in {rspamd_archive_rar_read_vint(input, <<>>, q, Len(input) - q)} :
                v.r # -1 =>
                    /\ v.r \in 1..(Len(input) - q)
                    /\ input[q + v.r] < 128
                    /\ \A i \in 1..(v.r - 1) : input[q + i] >= 128
                    /\ v.val = WFrom7(BytesAt(input, <<>>, q, v.r))

\* the encoding table of the 7-Zip numbers: the count of leading 1-bits of
\* the first byte, 7 for 0xFE and 8 for 0xFF
SzLeadingOnes(t) ==
    IF t < 128 THEN 0 ELSE IF t < 192 THEN 1 ELSE IF t < 224 THEN 2
    ELSE IF t < 240 THEN 3 ELSE IF t < 248 THEN 4 ELSE IF t < 252 THEN 5
    ELSE IF t < 254 THEN 6 ELSE IF t = 254 THEN 7 ELSE 8

\* the value the table gives to the number at offset q: the k following
\* bytes little-endian, and the low 7 - k bits of the first byte above them
SzTableValue(buf, q) ==
    [i \in WLimbs |->
        IF i <= SzLeadingOnes(buf[q + 1]) THEN buf[q + 1 + i]
        ELSE IF i = SzLeadingOnes(buf[q + 1]) + 1 /\ SzLeadingOnes(buf[q + 1]) < 7
        THEN buf[q + 1] % (2 ^ (7 - SzLeadingOnes(buf[q + 1])))
        ELSE 0]

\* C19: at every offset of a 7-Zip input that was read, the decoder fails
\* exactly when fewer bytes remain than the first byte announces, and
\* otherwise returns the announced length and the value of the table
C19_SzVintReference ==
    (pc \in {"post", "done"} /\ ExtIs(ext, Ext7z)) =>
        \A q \in 0..(Len(input) - 1) :
            \E v \in {rspamd_archive_7zip_read_vint(
                          [buf |-> input, tl |-> tail, un |-> uninit], q, Len(input) - q)} :
                IF Len(input) - q < SzLeadingOnes(input[q + 1]) + 1
                THEN v.r = -1
                ELSE /\ v.r = SzLeadingOnes(input[q + 1]) + 1
                     /\ v.val = SzTableValue(input, q)

\* the parts the dispatcher is to leave alone, seen at one step: a part
\* that was an archive at the call, a part without a hint, a part whose
\* reader rejects or has rejected the input
KeptPart ==
    \/ (pc = "start" /\ part.part_type = "archive")
    \/ ext = NoExt
    \/ loc'.msg \notin {"", "attached"}

\* C20: the check after a reader that attached an archive to a part whose
\* content type is flagged text ends with the broken flag set when the
\* message declared that type; when the type is flagged missing (the text
\* type the parser assumes for a part without the header) the check leaves
\* the part as the reader left it; and no step changes a part that is to be
\* left alone
C20_DeclaredTextArchiveBroken ==
    [][/\ (/\ pc = "post" /\ loc.msg = "attached"
           /\ part.ct # NoCt /\ "text" \in part.ct)
          => /\ pc' = "done"
             /\ IF "missing" \in part.ct THEN part' = part
                ELSE part' = [part EXCEPT !.ct = @ \cup {"broken"}]
       /\ KeptPart => part' = part]_vars

\* a part with the hint "ZIP" and a declared text type has been read as an
\* archive and its content type is now broken
C20_Witness ==
    /\ pc = "done"
    /\ ext = <<90, 73, 80>>
    /\ loc.msg = "attached"
    /\ part.part_type = "archive"
    /\ part.arch.type = "zip"
    /\ part.ct = {"text", "broken"}

\* well-formed UTF-8 whose code points are all printable: the space and
\* everything above it that is neither a control nor a format character
PrintableUtf8(name) ==
    /\ Utf8Decode(name) # Bad
    /\ \A i \in 1..Len(Utf8Decode(name)) :
          /\ Utf8Decode(name)[i] >= 32
          /\ ~IsUCntrl(Utf8Decode(name)[i])
          /\ ~IsZeroWidthSpace(Utf8Decode(name)[i])

\* C21: when the ZIP reader adds the entry of a record whose name is
\* printable UTF-8, the stored name is that name byte for byte and the entry
\* is not marked obfuscated, whatever the charset guesser answered
C21_PrintableNameKept ==
    [][(/\ pc = "zip_cd"
        /\ Len(arch'.files) = Len(arch.files) + 1
        /\ PrintableUtf8(ZipReadCd(input, tail, p, loc.eocd).name))
           => /\ arch'.files[Len(arch'.files)].fname = ZipReadCd(input, tail, p, loc.eocd).name
              /\ "obfuscated" \notin arch'.files[Len(arch'.files)].flags]_vars

RECURSIVE ZipExtraRecordWith(_, _, _, _)
\* the extra area from q to end, taken as records id:u16, len:u16, payload,
\* has a record whose id is hid; a record needs its four header bytes only
ZipExtraRecordWith(buf, q, end, hid) ==
    IF q + 4 <= end
    THEN \/ U16At(buf, <<>>, q) = hid
         \/ ZipExtraRecordWith(buf, q + U16At(buf, <<>>, q + 2) + 4, end, hid)
    ELSE FALSE

\* C22: the entry that the ZIP reader adds for a central-directory record is
\* flagged encrypted exactly when bit 0 or bit 6 of the record's
\* general-purpose flags is set or its extra area has a record with id
\* 0x0017
C22_ZipEntryEncrypted ==
    [][(pc = "zip_cd" /\ Len(arch'.files) = Len(arch.files) + 1)
          => ("encrypted" \in arch'.files[Len(arch'.files)].flags
                <=> \/ BitSet(U16At(input, tail, p + 8), 0)
                    \/ BitSet(U16At(input, tail, p + 8), 6)
                    \/ ZipExtraRecordWith(input,
                          p + cd_basic_len + U16At(input, tail, p + 28),
                          p + cd_basic_len + U16At(input, tail, p + 28)
                            + U16At(input, tail, p + 30), 23))]_vars

\* the EOCD record was found, is long enough, and the sum of its cd_offset
\* and cd_size fields, taken without wrapping, exceeds its offset
ZipExtentBeyondEocd ==
    /\ ZipFindEocd(input) # -1
    /\ (Len(input) - 1) - ZipFindEocd(input) >= 21
    /\ WGtNat(WAdd(WFromBytes(BytesAt(input, <<>>, ZipFindEocd(input) + 16, 4)),
                   WFromBytes(BytesAt(input, <<>>, ZipFindEocd(input) + 12, 4))),
              ZipFindEocd(input))

\* C23: when cd_offset + cd_size exceeds the offset of the EOCD record, the
\* ZIP reader attaches nothing and returns with a rejection; and a
\* central-directory record is only read at an offset in [0, eocd)
C23_CdExtentRejected ==
    /\ (pc \in {"zip_cd", "post"} /\ ExtIs(ext, ExtZip) /\ ZipExtentBeyondEocd)
          => /\ part.part_type # "archive"
             /\ part.arch = NoArch
             /\ (pc = "post" => loc.msg \notin {"", "attached"})
    /\ (pc = "zip_cd" /\ ZipMore(p, loc.cd_end) /\ loc.eocd - p >= cd_basic_len)
          => (p >= 0 /\ p < loc.eocd)

\* the extra area [q, q + n) lies inside the buffer and begins with a
\* record (size vint, type vint) of type 0x01
Rar5AreaStartsEncrypted(buf, q, n) ==
    /\ n > 0
    /\ q + n <= Len(buf)
    /\ \E v1 \in {rspamd_archive_rar_read_vint(buf, <<>>, q, n)} :
          /\ v1.r # -1
          /\ \E v2 \in {rspamd_archive_rar_read_vint(buf, <<>>, q + v1.r, n - v1.r)} :
                v2.r # -1 /\ v2.val = W(1)

\* C24: when the RAR v5 reader is done with the header of a file record
\* whose entry it added and whose extra area lies inside the buffer and
\* holds a record of type 0x01 (here its first record), the entry and the
\* archive are flagged encrypted, whatever the lengths of the name and of
\* the area; and an archive with an encrypted entry is flagged encrypted
C24_Rar5EntryEncrypted ==
    [][/\ (/\ pc \in {"rar5_file", "rar5_extra"}
           /\ pc' = "rar5_skip"
           /\ (pc = "rar5_file" => Len(arch'.files) = Len(arch.files) + 1)
           /\ loc'.has_extra
           /\ WSmall(loc'.extra_sz)
           /\ Rar5AreaStartsEncrypted(input, p' + loc'.fname_len, WNat(loc'.extra_sz)))
             => /\ "encrypted" \in arch'.files[Len(arch'.files)].flags
                /\ "encrypted" \in arch'.flags
       /\ (pc' \in {"rar5", "rar5_file", "rar5_extra", "rar5_skip"}
           /\ \E i \in 1..Len(arch'.files) : "encrypted" \in arch'.files[i].flags)
             => "encrypted" \in arch'.flags]_vars

\* a 32-bit little-endian field of an array that is below 2^30
U32At(buf, i) == WNat(WFromBytes(BytesAt(buf, <<>>, i, 4)))

RECURSIVE ZipCdRecordAt(_, _)
\* the offset of the i-th record of the central directory of a written
\* array: the first is where the EOCD record says, each next one follows
\* the name, extra and comment of the one before
ZipCdRecordAt(buf, i) ==
    IF i = 1 THEN U32At(buf, Len(buf) - 6)
    ELSE ZipCdRecordAt(buf, i - 1) + cd_basic_len
            + U16At(buf, <<>>, ZipCdRecordAt(buf, i - 1) + 28)
            + U16At(buf, <<>>, ZipCdRecordAt(buf, i - 1) + 30)
            + U16At(buf, <<>>, ZipCdRecordAt(buf, i - 1) + 32)

\* the central-directory record at c mirrors the local header at l:
\* version needed, flags and method; crc and the two sizes; the lengths of
\* name and extra; the name; the extra field
ZipCdMirrorsLfh(buf, c, l) ==
    /\ BytesAt(buf, <<>>, c, 4) = <<80, 75, 1, 2>>
    /\ BytesAt(buf, <<>>, l, 4) = <<80, 75, 3, 4>>
    /\ BytesAt(buf, <<>>, c + 6, 6) = BytesAt(buf, <<>>, l + 4, 6)
    /\ BytesAt(buf, <<>>, c + 16, 12) = BytesAt(buf, <<>>, l + 14, 12)
    /\ BytesAt(buf, <<>>, c + 28, 4) = BytesAt(buf, <<>>, l + 26, 4)
    /\ BytesAt(buf, <<>>, c + cd_basic_len,
               U16At(buf, <<>>, c + 28) + U16At(buf, <<>>, c + 30))
         = BytesAt(buf, <<>>, l + 30, U16At(buf, <<>>, l + 26) + U16At(buf, <<>>, l + 28))

\* C25: in a written array the i-th central-directory record carries the
\* name of the i-th entry, points to the offset at which the local header of
\* that entry was begun, and mirrors the local header found there
C25_CentralMirrorsLocal ==
    pc = "written" =>
        \A i \in 1..Len(files) :
            \E c \in {ZipCdRecordAt(result, i)} :
                /\ U32At(result, c + 42) = winfo[i].lfh_off
                /\ BytesAt(result, <<>>, c + cd_basic_len, U16At(result, <<>>, c + 28))
                     = files[i].name
                /\ ZipCdMirrorsLfh(result, c, winfo[i].lfh_off)
                /\ (winfo[i].aes =>
                        /\ U16At(result, <<>>, c + 30) = 11
                        /\ U16At(result, <<>>, c + cd_basic_len + Len(files[i].name) + 9)
                             = (IF winfo[i].stored THEN 0 ELSE 8))

\* an array of two encrypted entries has been written, the first of them
\* deflated and the second stored
C25_Witness ==
    /\ pc = "written"
    /\ Len(files) = 2
    /\ winfo[1].aes
    /\ ~winfo[1].stored
    /\ winfo[2].stored
    /\ winfo[2].lfh_off > 0

\* C26: when the ZIP reader adds an entry whose stored name differs from the
\* name of the record (only the branch taken without a charset changes a
\* name), the stored name has the length of the name, keeps the graphic
\* bytes 0x21..0x7E and has '?' for every other byte, and the entry is
\* marked obfuscated exactly when a replaced byte was NUL, a C0 control or
\* DEL
C26_NoCharsetName ==
    [][(/\ pc = "zip_cd"
        /\ Len(arch'.files) = Len(arch.files) + 1
        /\ arch'.files[Len(arch'.files)].fname # ZipReadCd(input, tail, p, loc.eocd).name)
           => \E f \in {arch'.files[Len(arch'.files)]} :
              \E name \in {ZipReadCd(input, tail, p, loc.eocd).name} :
                 /\ Len(f.fname) = Len(name)
                 /\ \A k \in 1..Len(name) :
                       f.fname[k] = (IF name[k] >= 33 /\ name[k] <= 126 THEN name[k] ELSE 63)
                 /\ ("obfuscated" \in f.flags
                       <=> \E k \in 1..Len(name) : name[k] <= 31 \/ name[k] = 127)]_vars

\* the offset of the structure that follows the payload of entry i: the
\* next local header, or the central directory after the last entry
ZipPayloadEnd(i) ==
    IF i < Len(files) THEN winfo[i + 1].lfh_off ELSE U32At(result, Len(result) - 6)

\* C27: in an array written without a password every entry has, in its
\* local header and in its central record, method 0 with the data as
\* payload or method 8 with a deflate output shorter than the data as
\* payload; the compressed-size field is the number of bytes between the
\* name and the next structure and does not exceed the uncompressed size;
\* the crc field is the crc of the data
C27_StoreFallback ==
    (pc = "written" /\ ~UseAes(password)) =>
        \A i \in 1..Len(files) :
            \E l \in {winfo[i].lfh_off} :
            \E c \in {ZipCdRecordAt(result, i)} :
            \E payload \in {SubSeq(result, l + 30 + Len(files[i].name) + 1, ZipPayloadEnd(i))} :
                /\ U16At(result, <<>>, l + 28) = 0
                /\ U16At(result, <<>>, l + 8) = U16At(result, <<>>, c + 10)
                /\ \/ U16At(result, <<>>, l + 8) = 0 /\ payload = files[i].data
                   \/ /\ U16At(result, <<>>, l + 8) = 8
                      /\ payload \in DeflateOutputs(files[i].data)
                      /\ Len(payload) < Len(files[i].data)
                /\ U32At(result, l + 18) = Len(payload)
                /\ U32At(result, c + 20) = Len(payload)
                /\ U32At(result, l + 18) <= U32At(result, l + 22)
                /\ U32At(result, l + 22) = Len(files[i].data)
                /\ BytesAt(result, <<>>, l + 14, 4) = crc32(files[i].data)
                /\ BytesAt(result, <<>>, c + 16, 4) = crc32(files[i].data)

\* an array of two entries has been written without a password: the first
\* has no data and is stored, the second is deflated
C27_Witness ==
    /\ pc = "written"
    /\ password = NoPassword
    /\ Len(files) = 2
    /\ files[1].data = <<>>
    /\ U16At(result, <<>>, 8) = 0
    /\ U16At(result, <<>>, winfo[2].lfh_off + 8) = 8

\* the size of the RAR v4 record at offset s as the format gives it: the
\* 16-bit size, plus ADD_SIZE with flag 0x8000, plus HIGH_PACK_SIZE of a
\* file header with flag 0x100
Rar4RecordSize(buf, s) ==
    LET flags == U16At(buf, <<>>, s + 3)
        q     == IF BitSet(flags, 15) THEN s + 11 ELSE s + 7
    IN U16At(buf, <<>>, s + 5)
       + (IF BitSet(flags, 15) THEN U32At(buf, s + 7) ELSE 0)
       + (IF ByteAt(buf, <<>>, s + 2) = 116 /\ BitSet(flags, 8)
          THEN U32At(buf, q + 21) ELSE 0)

\* the record at offset s is a main header with flag 0x80
Rar4MainEncrypted(buf, s) ==
    ByteAt(buf, <<>>, s + 2) = 115 /\ BitSet(U16At(buf, <<>>, s + 3), 7)

\* the step gives the input up: the reader is left and the part is as before
Rar4Rejects ==
    pc' = "post" /\ part' = part /\ loc'.msg # "attached"

\* the steps of the RAR v4 walk: the skip at the end of a record, the
\* zero-size record, the main header with flag 0x80
Rar4WalkStep ==
    /\ pc = "rar4_skip" =>
          \E s \in {loc.start_section} :
          \E size \in {Rar4RecordSize(input, s)} :
             IF s + size > Len(input) THEN Rar4Rejects
             ELSE p' = s + size /\ p' > s /\ pc' = "rar4"
    /\ (/\ pc = "rar4"
        /\ p + 7 <= Len(input)
        /\ ~Rar4MainEncrypted(input, p)
        /\ BitSet(U16At(input, <<>>, p + 3), 15) => p + 11 <= Len(input)
        /\ U16At(input, <<>>, p + 5) = 0
        /\ BitSet(U16At(input, <<>>, p + 3), 15) => U32At(input, p + 7) = 0)
          => Rar4Rejects
    /\ (pc = "rar4" /\ p + 5 <= Len(input) /\ Rar4MainEncrypted(input, p)) =>
          /\ pc' = "post"
          /\ loc'.msg = "attached"
          /\ "encrypted" \in arch'.flags
          /\ part' = Attach(part, arch', input)

\* C28: in the RAR v4 walk the cursor after a record is the record's start
\* plus its size (16-bit size, plus ADD_SIZE with flag 0x8000, plus
\* HIGH_PACK_SIZE with flag 0x100), beyond the start; a record of size 0
\* or reaching past the end of the buffer rejects the input; a main header
\* with flag 0x80 marks the archive encrypted and ends the walk with the
\* archive attached; the walk ends on every input
C28_Rar4Walk ==
    /\ [][Rar4WalkStep]_vars
    /\ (pc \in {"rar4", "rar4_file", "rar4_skip"}) ~> (pc = "post")

\* the walk has skipped a file record with ADD_SIZE 1 and HIGH_PACK_SIZE 2
\* and has ended at the encrypted main header behind the three data bytes
C28_Witness ==
    /\ pc = "post"
    /\ input = RarV4Magic \o Rar4FileBlockPacked(NameA, 1, 2, <<7, 7, 7>>) \o Rar4MainBlock(128)
    /\ loc.msg = "attached"
    /\ p = Len(input) - 13
    /\ loc.start_section = 7
    /\ Rar4RecordSize(input, 7) = 44
    /\ "encrypted" \in part.arch.flags

\* the entries of an array written with the empty password have the layout
\* of unencrypted entries
ZipPlainLayout ==
    (pc = "written" /\ password = <<>>) =>
        /\ Len(result) >= 22
        /\ \A i \in 1..Len(files) :
              \E l \in {winfo[i].lfh_off} :
              \E c \in {ZipCdRecordAt(result, i)} :
              \E payload \in {SubSeq(result, l + 30 + Len(files[i].name) + 1, ZipPayloadEnd(i))} :
                 /\ ~winfo[i].aes
                 /\ U16At(result, <<>>, l + 4) = 20
                 /\ U16At(result, <<>>, c + 6) = 20
                 /\ ~BitSet(U16At(result, <<>>, l + 6), 0)
                 /\ ~BitSet(U16At(result, <<>>, c + 8), 0)
                 /\ U16At(result, <<>>, l + 8) \in {0, 8}
                 /\ U16At(result, <<>>, c + 10) \in {0, 8}
                 /\ U16At(result, <<>>, l + 28) = 0
                 /\ U16At(result, <<>>, c + 30) = 0
                 /\ payload = files[i].data \/ payload \in DeflateOutputs(files[i].data)

\* with the empty password one pass of the loop does what it does with no
\* password: the same bytes, the same error or none, no key derived
ZipEmptyPasswordStep ==
    (pc = "zip_write_entry" /\ wi < Len(files) /\ password = <<>>) =>
        \E o \in WriterOutcomes(files[wi + 1].data, FALSE) :
        \E r \in {ZipWriteOne(zip, cd, files[wi + 1], NoPassword, o)} :
           /\ zip' = r.zip
           /\ cd' = r.cd
           /\ loc'.msg = r.msg
           /\ crypto'.dk = "none"
           /\ pc' = IF r.msg = "" THEN "zip_write_entry" ELSE "write_failed"

\* C29: rspamd_archives_zip_write treats the empty password as no password:
\* every pass of the loop produces what it produces without a password,
\* and the returned array has no general-purpose bit 0, method 8 or 0,
\* version needed 20, no extra field and the data or their deflate output
\* as payload
C29_EmptyPasswordAsAbsent ==
    [](ZipPlainLayout) /\ [][ZipEmptyPasswordStep]_vars

\* an array of two entries has been returned for the empty password, the
\* first entry deflated
C29_Witness ==
    /\ pc = "written"
    /\ password = <<>>
    /\ Len(files) = 2
    /\ Len(result) >= 22
    /\ U16At(result, <<>>, 8) = 8
    /\ U16At(result, <<>>, 6) = 2048

\* C30: in CodersInfo, whenever kCodersUnPackSize reads the per-folder
\* out-stream table at folder index i, the table has more than i entries
\* and entry i was written by a folder that was read to its end
C30_FolderTableIndexed ==
    pc \in {"7zip_section", "7zip_end", "post", "done"} => ~loc.wild

====
